---- MODULE Spec2Model ----
(***************************************************************************)
(* Model of the Syntra Python SDK core (packages/sdk-python/syntra).       *)
(*                                                                         *)
(* Part 1: spans and the Tracer (tracing/span.py, tracing/tracer.py,       *)
(* tracing/context.py).  Part 2: scopes (scope.py).  Part 3: the transport *)
(* queues and the retry loop (transport/base.py) and the send_payload of   *)
(* the HTTP and OTLP transports (transport/http.py, transport/otlp.py).    *)
(* Part 4: trace context propagation, the traceparent codec and the header *)
(* maps (tracing/context.py).  Part 5: the client (client.py).             *)
(*                                                                         *)
(* Span objects are the elements of the sequence `spans`; the index of a   *)
(* span in it is its object identity (the handle the caller holds).        *)
(* Identifiers produced by os.urandom are modelled as fresh values taken   *)
(* from a counter: two generated identifiers never collide.  Identifiers   *)
(* of a remote trace (a context extracted from headers) lie outside the    *)
(* range of the locally generated ones.  None and the empty string, which  *)
(* Python's truth tests treat alike, are both written None.                *)
(***************************************************************************)
EXTENDS Integers, Sequences, FiniteSets, TLC

\* ------------------------------------------------------------------ bounds

\* Number of capture_exception calls in a run.
MaxCaptures == 2

\* Number of start_span calls (span objects, recording or no-op) in a run.
MaxSpans == 2
\* Readings of the wall clock (time.time_ns()) are 1 .. MaxTime.
MaxTime == 2
\* Number of mutating calls (set_status, set_attribute, set_attributes,
\* add_event) in a run.
MaxCalls == 2
\* Number of records the finished-span queue holds in a run.
MaxFinished == 2
\* Largest max_breadcrumbs of a ScopeManager.
MaxCap == 2
\* Number of Scope objects (the global scope and the clones) in a run.
MaxScopes == 3
\* Number of add_breadcrumb calls in a run.
MaxCrumbs == 3
\* Largest max_batch_size of a transport.
MaxBatch == 2
\* Largest max_retries of a transport.
MaxRetries == 6
\* Number of records handed to the transport in a run.
MaxRecords == 3

\* --------------------------------------------------------------- constants

\* Python's None (also the empty string and the absent identifier).
None == 0
\* context.py: TRACE_FLAG_NONE, TRACE_FLAG_SAMPLED.
TRACE_FLAG_NONE == 0
TRACE_FLAG_SAMPLED == 1

\* Tracer.sample_rate in percent; the constructor takes any float, also one
\* outside [0, 1] (a rate above 1 behaves as 1 does: only the test >= 1 reads it).
SampleRates == {0 - 50, 0, 50, 100}
\* Outcomes of random.random(), in percent: a value of [0, 1).
Draws == {0, 99}

\* Execution contexts (contextvars contexts): each has its own binding of
\* _current_context.
ExecCtxs == {"main"}

\* Arguments of set_status: (code, message).
StatusArgs ==
  { [code |-> "ok", message |-> "none"],
    [code |-> "error", message |-> "boom"] }

\* Attribute keys and values the callers use.  "absent" marks a key that is
\* not in a dict.
AttrKeys == {"syntra.op", "order_id", "user"}
Absent == "absent"
EmptyDict == [k \in AttrKeys |-> Absent]
\* Arguments of set_attribute.
AttrArgs == { <<"order_id", "123">>, <<"syntra.op", "late">> }
\* Arguments of set_attributes: a dict holding several keys.
BulkArgs == { [k \in AttrKeys |-> IF k = "syntra.op" THEN Absent ELSE "x"] }
\* The op argument of start_span: None or an operation name.
OpArgs == {"none", "function"}
\* The attributes argument of start_span: None, or the caller's own dict (the
\* one static dict a @trace decorator hands to every call).
AttrsArgs == {"none", "static"}

\* Initial contents of the caller's attributes dict: empty, or one entry.
StaticDicts == { EmptyDict, [EmptyDict EXCEPT !["user"] = "u1"] }

\* tracer.py: on_span_end creates a flush task once the finished queue holds
\* this many records.
AutoFlushThreshold == 100

\* trace_flags of a context extracted from a remote traceparent header.
RemoteFlags == {TRACE_FLAG_NONE, TRACE_FLAG_SAMPLED}
\* Identifiers of a remote trace, outside the locally generated range: one
\* upstream span that is sampled, one that is not.
RemoteTraceId == 2 * MaxSpans + 10
RemoteSpanId(f) == 2 * MaxSpans + 11 + f

VARIABLES
  sample_rate,      \* Tracer.sample_rate, in percent
  spans,            \* every span object created so far, by handle
  static_attrs,     \* the caller's attributes dict (shared by reference)
  active_spans,     \* Tracer._active_spans: span_id -> handle, as a set of handles
  finished_spans,   \* Tracer._finished_spans: sequence of wire records
  current_context,  \* _current_context, per execution context
  now,              \* the wall clock read by time.time_ns()
  ids,              \* number of identifiers generated so far
  flush_tasks,      \* number of _flush_spans tasks created by on_span_end
  calls,            \* number of mutating calls made so far
  last_call,        \* the call the latest step made (NoCall if it made none)
  scopes,           \* every Scope object created so far, by handle
  tag_dicts,        \* the dict objects held as Scope.tags
  extra_dicts,      \* the dict objects held as Scope.extra
  crumb_lists,      \* the list objects held as Scope.breadcrumbs
  crumbs,           \* the Breadcrumb objects
  nested,           \* the mutable objects stored as values in Scope.extra
  current_scope,    \* _current_scope, per execution context
  scope_frames,     \* the open with_scope calls, per execution context
  max_batch_size,   \* BaseTransport.max_batch_size
  max_retries,      \* BaseTransport.max_retries
  queues,           \* BaseTransport._error_queue, _span_queue, _log_queue
  tasks,            \* what each task is doing inside the transport
  records,          \* number of records created so far
  batches,          \* every batch handed to _send_with_retry so far
  enqueued,         \* the records enqueued so far, per kind, in order
  last_response,    \* what the HTTP client answered to the latest send_payload
  wire_ctx,         \* the SpanContext the application passes to create / inject
  wire_header,      \* the traceparent text the application parses
  wire_result,      \* what parse_traceparent / extract_trace_context returned
  carrier,          \* the header map the application injects into / extracts from
  wire_pc,          \* which propagation calls have been made
  errors_sample_rate, \* SyntraOptions.errors_sample_rate, in percent
  before_send,      \* SyntraOptions.before_send
  events,           \* the TelemetryError objects capture_exception has built
  main_pc,          \* where the application's coroutine stands
  captures          \* the capture_exception calls the application has made

tracer_vars ==
  << sample_rate, spans, static_attrs, active_spans, finished_spans,
     current_context, now, ids, flush_tasks >>

scope_vars ==
  << scopes, tag_dicts, extra_dicts, crumb_lists, crumbs, nested,
     current_scope, scope_frames >>

transport_vars ==
  << max_batch_size, max_retries, queues, tasks, records, batches, enqueued,
     last_response >>

codec_vars == << wire_ctx, wire_header, wire_result, carrier, wire_pc >>

client_vars == << errors_sample_rate, before_send, events, main_pc, captures >>

\* What the operations of one part leave alone.
not_tracer_vars == << scope_vars, transport_vars, codec_vars, client_vars >>
not_scope_vars == << tracer_vars, transport_vars, codec_vars, client_vars >>
not_transport_vars == << tracer_vars, scope_vars, codec_vars, client_vars >>
not_codec_vars == << tracer_vars, scope_vars, transport_vars, client_vars >>
not_client_vars == << tracer_vars, scope_vars, transport_vars, codec_vars >>

vars ==
  << tracer_vars, calls, last_call, scope_vars, transport_vars, codec_vars,
     client_vars >>

\* ---------------------------------------------------------------- helpers

Handles == 1 .. Len(spans)

\* context.py: SpanContext(trace_id, span_id, trace_flags); NoContext is None.
NoContext == [trace_id |-> None, span_id |-> None, trace_flags |-> TRACE_FLAG_NONE]
SpanContext(t, s, f) == [trace_id |-> t, span_id |-> s, trace_flags |-> f]

\* context.py: get_current_context().
get_current_context(e) == current_context[e]

\* Span.is_recording() of a span object: SpanImpl returns _recording,
\* NoopSpan returns False.
Recording(sp) == IF sp.kind = "NoopSpan" THEN FALSE ELSE sp.recording

\* Span.is_recording() of the span with handle h.
is_recording(h) == Recording(spans[h])

\* The dict a SpanImpl's _attributes refers to: the caller's dict or its own.
Attributes(h) ==
  IF spans[h].attrs_ref = "static" THEN static_attrs ELSE spans[h].own_attrs

\* SpanImpl.duration_ns of the span object sp.
DurationOf(sp) ==
  IF sp.end_time_ns = None THEN 0
  ELSE sp.end_time_ns - sp.start_time_ns

\* SpanImpl.duration_ns of the span with handle h.
duration_ns(h) == DurationOf(spans[h])

\* Mutant of span_context: the no-op span's context is marked sampled too.
span_context_always_sampled(h) ==
  SpanContext(spans[h].trace_id, spans[h].span_id, TRACE_FLAG_SAMPLED)

\* Span.span_context(): SpanImpl marks it sampled, NoopSpan not sampled.
span_context(h) ==
  SpanContext(spans[h].trace_id, spans[h].span_id,
              IF spans[h].kind = "NoopSpan" THEN TRACE_FLAG_NONE
              ELSE TRACE_FLAG_SAMPLED)

\* Mutant of ActiveGet: the lookup in the registry always misses.
ActiveGet_missing(reg, sid) == None

\* Tracer._active_spans.get(span_id): the handle registered under span_id,
\* or None.
ActiveGet(reg, sid) ==
  IF \E h \in reg : spans[h].span_id = sid
  THEN CHOOSE h \in reg : spans[h].span_id = sid
  ELSE None

\* Tracer.get_active_span(): a handle or None.
get_active_span(e) ==
  IF get_current_context(e) = NoContext THEN None
  ELSE ActiveGet(active_spans, get_current_context(e).span_id)

\* dict.update(attrs) / dict[key] = value on a dict value.
DictSet(d, k, v) == [d EXCEPT ![k] = v]
DictUpdate(d, upd) == [k \in AttrKeys |-> IF upd[k] = Absent THEN d[k] ELSE upd[k]]

\* The call recorded in last_call: the operation, the execution context it
\* ran in (for the tracer's operations), the span it was made on or returned,
\* and the explicit parent handed to start_span.
Call(op, e, h, parent) == [op |-> op, ctx |-> e, span |-> h, parent |-> parent]
NoCall == Call("none", "none", None, None)

\* ----------------------------------------------------------------- tracer

\* Mutant of should_sample: the parent's sampled flag is followed before the
\* rate is compared with 0.
should_sample_parent_first(e, draw) ==
  IF sample_rate >= 100 THEN TRUE
  ELSE IF /\ get_current_context(e) # NoContext
          /\ get_current_context(e).trace_flags % 2 # 0
       THEN TRUE
  ELSE IF sample_rate <= 0 THEN FALSE
  ELSE draw < sample_rate

\* Mutant of should_sample: the parent's sampled flag is not looked at.
should_sample_no_parent(e, draw) ==
  IF sample_rate >= 100 THEN TRUE
  ELSE IF sample_rate <= 0 THEN FALSE
  ELSE draw < sample_rate

\* Tracer._should_sample(), with the outcome of random.random() as draw.
should_sample(e, draw) ==
  IF sample_rate >= 100 THEN TRUE
  ELSE IF sample_rate <= 0 THEN FALSE
  ELSE IF /\ get_current_context(e) # NoContext
          /\ get_current_context(e).trace_flags % 2 # 0
       THEN TRUE
  ELSE draw < sample_rate

\* NoopSpan(): no context given, so both identifiers are generated.
NewNoopSpan ==
  [ kind |-> "NoopSpan", trace_id |-> ids + 1, span_id |-> ids + 2,
    parent_span_id |-> None, start_time_ns |-> None, end_time_ns |-> None,
    status |-> [code |-> "unset", message |-> "none"],
    attrs_ref |-> "own", own_attrs |-> EmptyDict, events |-> << >>,
    recording |-> FALSE ]

\* Mutant of NewSpanImpl: the trace_id argument is ignored, every span
\* starts a trace of its own.
NewSpanImpl_fresh_trace(trace_id, parent_span_id, attrs) ==
  [ kind |-> "SpanImpl",
    trace_id |-> ids + 1,
    span_id |-> ids + 2,
    parent_span_id |-> parent_span_id,
    start_time_ns |-> now, end_time_ns |-> None,
    status |-> [code |-> "unset", message |-> "none"],
    attrs_ref |-> IF attrs = "static" /\ static_attrs # EmptyDict
                  THEN "static" ELSE "own",
    own_attrs |-> EmptyDict, events |-> << >>,
    recording |-> TRUE ]

\* SpanImpl(name, kind, trace_id, parent_span_id, attributes): trace_id is
\* generated when the argument is None or empty, span_id always; _attributes
\* is the caller's dict itself unless that is None or empty.
NewSpanImpl(trace_id, parent_span_id, attrs) ==
  [ kind |-> "SpanImpl",
    trace_id |-> IF trace_id # None THEN trace_id ELSE ids + 1,
    span_id |-> IF trace_id # None THEN ids + 1 ELSE ids + 2,
    parent_span_id |-> parent_span_id,
    start_time_ns |-> now, end_time_ns |-> None,
    status |-> [code |-> "unset", message |-> "none"],
    attrs_ref |-> IF attrs = "static" /\ static_attrs # EmptyDict
                  THEN "static" ELSE "own",
    own_attrs |-> EmptyDict, events |-> << >>,
    recording |-> TRUE ]

\* The parent context start_span uses: that of the explicit parent span if
\* one is given, else the ambient one.
ParentContext(e, parent) ==
  IF parent # None THEN span_context(parent) ELSE get_current_context(e)

\* Tracer._active_spans[span_id] = span.
ActivePut(reg, sid, h) == {x \in reg : spans[x].span_id # sid} \cup {h}

\* Tracer._active_spans.pop(span_id, None).
ActivePop(reg, sid) == {x \in reg : spans[x].span_id # sid}

\* ------------------------------------------------------------ span methods
\* Each method is a function of the span object (and, for the attribute
\* methods, of the dict its _attributes refers to).  NoopSpan's methods are
\* all `pass`.

\* SpanImpl.set_status(code, message) / NoopSpan.set_status.
set_status(sp, a) ==
  IF sp.kind = "NoopSpan" THEN sp
  ELSE IF ~ sp.recording THEN sp
  ELSE [sp EXCEPT !.status = a]

\* Mutant of set_attribute: the recording check is missing.
set_attribute_unguarded(sp, d, k, v) ==
  IF sp.kind = "NoopSpan" THEN d
  ELSE DictSet(d, k, v)

\* SpanImpl.set_attribute(key, value) / NoopSpan.set_attribute: the new
\* content of the dict d that sp._attributes refers to.
set_attribute(sp, d, k, v) ==
  IF sp.kind = "NoopSpan" THEN d
  ELSE IF ~ sp.recording THEN d
  ELSE DictSet(d, k, v)

\* SpanImpl.set_attributes(attrs) / NoopSpan.set_attributes.
set_attributes(sp, d, upd) ==
  IF sp.kind = "NoopSpan" THEN d
  ELSE IF ~ sp.recording THEN d
  ELSE DictUpdate(d, upd)

\* SpanImpl.add_event(name, attributes) / NoopSpan.add_event, at time t.
add_event(sp, name, t) ==
  IF sp.kind = "NoopSpan" THEN sp
  ELSE IF ~ sp.recording THEN sp
  ELSE [sp EXCEPT !.events = Append(@, [name |-> name, timestamp_ns |-> t])]

\* Mutant of end: the end time is set but the span keeps recording.
end_keeps_recording(sp, t) ==
  IF sp.kind = "NoopSpan" THEN sp
  ELSE IF ~ sp.recording THEN sp
  ELSE [sp EXCEPT !.end_time_ns = t]

\* Mutant of end: the recording check is missing, every call sets the end
\* time.
end_unguarded(sp, t) ==
  IF sp.kind = "NoopSpan" THEN sp
  ELSE [sp EXCEPT !.end_time_ns = t, !.recording = FALSE]

\* SpanImpl.end() / NoopSpan.end, at time t.
end(sp, t) ==
  IF sp.kind = "NoopSpan" THEN sp
  ELSE IF ~ sp.recording THEN sp
  ELSE [sp EXCEPT !.end_time_ns = t, !.recording = FALSE]

\* Writing dict d back through the reference sp._attributes: the span's own
\* dict, or the caller's dict.
StoreOwn(sp, d) == IF sp.attrs_ref = "static" THEN sp ELSE [sp EXCEPT !.own_attrs = d]
StoreStatic(sp, d) == IF sp.attrs_ref = "static" THEN d ELSE static_attrs

\* Mutant of StartContext: start_span does not set the ambient context.
StartContext_unset(e, sp) == current_context

\* The ambient context after start_span has registered span sp.
StartContext(e, sp) ==
  [current_context EXCEPT
     ![e] = SpanContext(sp.trace_id, sp.span_id, TRACE_FLAG_SAMPLED)]

\* Mutant of RestoredContext: the parent is not looked up, the ambient
\* context is always cleared.
RestoredContext_cleared(reg, sp) == NoContext

\* The ambient context on_span_end restores after it has removed span sp
\* from the registry, leaving reg: the context of sp's parent if that is
\* still registered, else None.
RestoredContext(reg, sp) ==
  IF sp.parent_span_id # None
  THEN IF ActiveGet(reg, sp.parent_span_id) # None
       THEN span_context(ActiveGet(reg, sp.parent_span_id))
       ELSE NoContext
  ELSE NoContext

\* SpanImpl.to_telemetry_span(...).to_dict() of the span with handle h: the
\* scalars and the status are copied, the events list is rebuilt, and
\* "attributes" is the span's _attributes dict itself (attributes_of names
\* the span whose dict it is).
TelemetrySpanOf(sp, h) ==
  [ trace_id |-> sp.trace_id,
    span_id |-> sp.span_id,
    parent_span_id |-> sp.parent_span_id,
    start_time_ns |-> sp.start_time_ns,
    duration_ns |-> DurationOf(sp),
    status |-> sp.status,
    attributes_of |-> h,
    events |-> sp.events ]

to_telemetry_span(h) == TelemetrySpanOf(spans[h], h)

\* --------------------------------------------------------------- actions

\* Tracer.start_span(name, op, kind, attributes, parent_span) in execution
\* context e.
StartSpan(e, op, attrs, parent, draw) ==
  /\ Len(spans) < MaxSpans
  /\ LET h == Len(spans) + 1 IN
     IF ~ should_sample(e, draw)
     THEN /\ spans' = Append(spans, NewNoopSpan)
          /\ ids' = ids + 2
          /\ UNCHANGED << static_attrs, active_spans, current_context >>
     ELSE LET pc == ParentContext(e, parent)
              sp == NewSpanImpl(pc.trace_id, pc.span_id, attrs)
              d0 == IF sp.attrs_ref = "static" THEN static_attrs ELSE sp.own_attrs
              \* span.set_attribute("syntra.op", op) when op is given
              d1 == IF op # "none" THEN set_attribute(sp, d0, "syntra.op", op) ELSE d0
          IN /\ spans' = Append(spans, StoreOwn(sp, d1))
             /\ static_attrs' = StoreStatic(sp, d1)
             /\ ids' = IF pc.trace_id # None THEN ids + 1 ELSE ids + 2
             /\ active_spans' = ActivePut(active_spans, sp.span_id, h)
             /\ current_context' = StartContext(e, sp)
  /\ last_call' = Call("start_span", e, Len(spans) + 1, parent)
  /\ UNCHANGED << sample_rate, finished_spans, now, flush_tasks, calls >>
  /\ UNCHANGED not_tracer_vars

\* Mutant of GlobalStartSpanNoTracer: the no-op span is made the current
\* span of the caller, as a recording span is.
GlobalStartSpanNoTracer_current(e) ==
  /\ Len(spans) < MaxSpans
  /\ spans' = Append(spans, NewNoopSpan)
  /\ ids' = ids + 2
  /\ current_context' = StartContext(e, NewNoopSpan)
  /\ last_call' = Call("start_span", e, Len(spans) + 1, None)
  /\ UNCHANGED << sample_rate, static_attrs, active_spans, finished_spans,
                  now, flush_tasks, calls >>
  /\ UNCHANGED not_tracer_vars

\* The module-level start_span(...) called in execution context e while no
\* global tracer is installed (the application built its Tracer itself and
\* never called set_tracer, or called set_tracer(None)): a NoopSpan is
\* returned and the Tracer object is not involved.
GlobalStartSpanNoTracer(e) ==
  /\ Len(spans) < MaxSpans
  /\ spans' = Append(spans, NewNoopSpan)
  /\ ids' = ids + 2
  /\ last_call' = Call("start_span", e, Len(spans) + 1, None)
  /\ UNCHANGED << sample_rate, static_attrs, active_spans, finished_spans,
                  current_context, now, flush_tasks, calls >>
  /\ UNCHANGED not_tracer_vars

\* Span.set_status(code, message) on the span with handle h.
SetStatus(h, a) ==
  /\ calls < MaxCalls
  /\ spans' = [spans EXCEPT ![h] = set_status(@, a)]
  /\ calls' = calls + 1
  /\ last_call' = Call("set_status", "none", h, None)
  /\ UNCHANGED << sample_rate, static_attrs, active_spans, finished_spans,
                  current_context, now, ids, flush_tasks >>
  /\ UNCHANGED not_tracer_vars

\* Span.set_attribute(key, value).
SetAttribute(h, k, v) ==
  /\ calls < MaxCalls
  /\ LET d == set_attribute(spans[h], Attributes(h), k, v) IN
       /\ spans' = [spans EXCEPT ![h] = StoreOwn(@, d)]
       /\ static_attrs' = StoreStatic(spans[h], d)
  /\ calls' = calls + 1
  /\ last_call' = Call("set_attribute", "none", h, None)
  /\ UNCHANGED << sample_rate, active_spans, finished_spans, current_context,
                  now, ids, flush_tasks >>
  /\ UNCHANGED not_tracer_vars

\* Span.set_attributes(attrs).
SetAttributes(h, upd) ==
  /\ calls < MaxCalls
  /\ LET d == set_attributes(spans[h], Attributes(h), upd) IN
       /\ spans' = [spans EXCEPT ![h] = StoreOwn(@, d)]
       /\ static_attrs' = StoreStatic(spans[h], d)
  /\ calls' = calls + 1
  /\ last_call' = Call("set_attributes", "none", h, None)
  /\ UNCHANGED << sample_rate, active_spans, finished_spans, current_context,
                  now, ids, flush_tasks >>
  /\ UNCHANGED not_tracer_vars

\* Span.add_event(name).
AddEvent(h, name) ==
  /\ calls < MaxCalls
  /\ spans' = [spans EXCEPT ![h] = add_event(@, name, now)]
  /\ calls' = calls + 1
  /\ last_call' = Call("add_event", "none", h, None)
  /\ UNCHANGED << sample_rate, static_attrs, active_spans, finished_spans,
                  current_context, now, ids, flush_tasks >>
  /\ UNCHANGED not_tracer_vars

\* Span.end().
End(h) ==
  /\ spans' = [spans EXCEPT ![h] = end(@, now)]
  /\ last_call' = Call("end", "none", h, None)
  /\ UNCHANGED << sample_rate, static_attrs, active_spans, finished_spans,
                  current_context, now, ids, flush_tasks, calls >>
  /\ UNCHANGED not_tracer_vars

\* Span.__exit__(exc_type, exc_val, exc_tb): leaving a `with span:` block,
\* normally (raised = FALSE) or by an exception (raised = TRUE).
Exit(h, raised) ==
  /\ LET s1 == IF raised
               THEN set_status(spans[h], [code |-> "error", message |-> "boom"])
               ELSE spans[h]
     IN spans' = [spans EXCEPT ![h] = end(s1, now)]
  /\ last_call' = Call("exit", "none", h, None)
  /\ UNCHANGED << sample_rate, static_attrs, active_spans, finished_spans,
                  current_context, now, ids, flush_tasks, calls >>
  /\ UNCHANGED not_tracer_vars

\* Tracer.on_span_end(span) called in execution context e with the span
\* whose handle is h (the callers in decorators.py and frameworks/ pass
\* whatever start_span returned).  The span leaves the registry and the
\* ambient context is restored first; then a NoopSpan, which has no
\* to_telemetry_span, makes the call raise AttributeError.  At the
\* auto-flush threshold asyncio.create_task is called, which raises
\* RuntimeError when the caller's thread runs no event loop.
OnSpanEnd(e, h) ==
  /\ Len(finished_spans) < MaxFinished
  /\ LET reg == ActivePop(active_spans, spans[h].span_id) IN
       /\ active_spans' = reg
       /\ current_context' =
            [current_context EXCEPT ![e] = RestoredContext(reg, spans[h])]
  /\ IF spans[h].kind = "NoopSpan"
     THEN /\ UNCHANGED << finished_spans, flush_tasks >>
          /\ last_call' = Call("on_span_end raised", e, h, None)
     ELSE /\ finished_spans' = Append(finished_spans, to_telemetry_span(h))
          /\ IF Len(finished_spans) + 1 >= AutoFlushThreshold
             THEN \/ /\ flush_tasks' = flush_tasks + 1
                     /\ last_call' = Call("on_span_end", e, h, None)
                  \/ /\ UNCHANGED flush_tasks
                     /\ last_call' = Call("on_span_end raised", e, h, None)
             ELSE /\ UNCHANGED flush_tasks
                  /\ last_call' = Call("on_span_end", e, h, None)
  /\ UNCHANGED << sample_rate, spans, static_attrs, now, ids, calls >>
  /\ UNCHANGED not_tracer_vars

\* What a call of a function wrapped by @trace does, seen from its caller:
\* whether the function returned or raised, and whether the wrapper passed
\* that on or raised an exception of its own.
TraceReturned == "trace: the function returned, the wrapper returned its result"
TraceRaised == "trace: the function raised, the wrapper raised its exception"
TraceReturnLost == "trace: the function returned, the wrapper raised"
TraceRaiseLost == "trace: the function raised, the wrapper raised another exception"
TraceOps == {TraceReturned, TraceRaised, TraceReturnLost, TraceRaiseLost}

\* One call, in execution context e, of a function wrapped by @trace (with a
\* tracer installed), from entry to exit; the function's body leaves the
\* tracer alone and returns, or raises Exception("boom").  The wrapper calls
\* start_span(op = "function", attributes = its static dict), then the
\* function, then set_status(OK) or set_status(ERROR, str(e)), and in its
\* finally block span.end() and tracer.on_span_end(span), whose exception
\* replaces the function's outcome.
TraceCall(e, raised, draw) ==
  /\ Len(spans) < MaxSpans
  /\ Len(finished_spans) < MaxFinished
  /\ LET h == Len(spans) + 1
         faithful == IF raised THEN TraceRaised ELSE TraceReturned
         lost == IF raised THEN TraceRaiseLost ELSE TraceReturnLost
     IN
     IF ~ should_sample(e, draw)
     THEN \* NoopSpan: set_status and end do nothing; on_span_end pops its
          \* span_id, clears the ambient context and raises AttributeError
          /\ spans' = Append(spans, NewNoopSpan)
          /\ ids' = ids + 2
          /\ active_spans' = ActivePop(active_spans, NewNoopSpan.span_id)
          /\ current_context' = [current_context EXCEPT ![e] = NoContext]
          /\ last_call' = Call(lost, e, h, None)
          /\ UNCHANGED << static_attrs, finished_spans, flush_tasks >>
     ELSE LET pc == ParentContext(e, None)
              sp == NewSpanImpl(pc.trace_id, pc.span_id, "static")
              d0 == IF sp.attrs_ref = "static" THEN static_attrs ELSE sp.own_attrs
              d1 == set_attribute(sp, d0, "syntra.op", "function")
              s1 == set_status(StoreOwn(sp, d1),
                               IF raised THEN [code |-> "error", message |-> "boom"]
                               ELSE [code |-> "ok", message |-> "none"])
              s2 == end(s1, now)
              reg == ActivePop(active_spans, sp.span_id)
          IN /\ spans' = Append(spans, s2)
             /\ static_attrs' = StoreStatic(sp, d1)
             /\ ids' = IF pc.trace_id # None THEN ids + 1 ELSE ids + 2
             /\ active_spans' = reg
             /\ current_context' =
                  [current_context EXCEPT ![e] = RestoredContext(reg, s2)]
             /\ finished_spans' = Append(finished_spans, TelemetrySpanOf(s2, h))
             /\ IF Len(finished_spans) + 1 >= AutoFlushThreshold
                THEN \/ /\ flush_tasks' = flush_tasks + 1
                        /\ last_call' = Call(faithful, e, h, None)
                     \/ /\ UNCHANGED flush_tasks
                        /\ last_call' = Call(lost, e, h, None)
                ELSE /\ UNCHANGED flush_tasks
                     /\ last_call' = Call(faithful, e, h, None)
  /\ UNCHANGED << sample_rate, now, calls >>
  /\ UNCHANGED not_tracer_vars

\* The contexts a caller hands to set_current_context: None, or a context
\* extracted from remote headers.
CallerContexts ==
  {NoContext}
    \cup {SpanContext(RemoteTraceId, RemoteSpanId(f), f) : f \in RemoteFlags}

\* context.py: set_current_context(context) in execution context e.
SetCurrentContext(e, ctx) ==
  /\ current_context[e] # ctx
  /\ current_context' = [current_context EXCEPT ![e] = ctx]
  /\ last_call' = Call("set_current_context", e, None, None)
  /\ UNCHANGED << sample_rate, spans, static_attrs, active_spans,
                  finished_spans, now, ids, flush_tasks, calls >>
  /\ UNCHANGED not_tracer_vars

\* Two execution contexts of one process: the main one and one that is
\* forked from it (a task made by asyncio.create_task, copy_context().run).
ForkCtxs == {"main", "task"}

\* A new execution context is forked from the main one: it starts with a
\* copy of the main context's binding of _current_context and has its own
\* binding from then on.
Fork ==
  /\ current_context' = [current_context EXCEPT !["task"] = current_context["main"]]
  /\ last_call' = Call("fork", "task", None, None)
  /\ UNCHANGED << sample_rate, spans, static_attrs, active_spans,
                  finished_spans, now, ids, flush_tasks, calls >>
  /\ UNCHANGED not_tracer_vars

\* Time passes: the next reading of time.time_ns() is larger.
Tick ==
  /\ now < MaxTime
  /\ now' = now + 1
  /\ last_call' = NoCall
  /\ UNCHANGED << sample_rate, spans, static_attrs, active_spans,
                  finished_spans, current_context, ids, flush_tasks, calls >>
  /\ UNCHANGED not_tracer_vars

\* The system clock is set back (time.time_ns() is the wall clock).
ClockSetBack ==
  /\ now > 1
  /\ now' = now - 1
  /\ last_call' = NoCall
  /\ UNCHANGED << sample_rate, spans, static_attrs, active_spans,
                  finished_spans, current_context, ids, flush_tasks, calls >>
  /\ UNCHANGED not_tracer_vars

\* ------------------------------------------------------------------ scopes
\* Part 2: scopes (scope.py).  Scope objects are the elements of `scopes`.
\* The containers a Scope holds are objects of their own: its tags dict, its
\* extra dict and its breadcrumbs list are entries of tag_dicts, extra_dicts
\* and crumb_lists, the values stored in extra are entries of `nested`
\* (mutable objects such as lists) and the Breadcrumb objects are entries of
\* `crumbs`.  A field of a Scope holds the index of the object it refers to.

\* ScopeManager._global_scope is the first scope object.
GlobalScope == 1

\* Scope.user: None, the empty dict, or a dict with entries.
NoUser == "none"
UserArgs == {"empty", "u1"}
\* Scope.fingerprint: None, the empty list, or a list with entries.
NoFingerprint == "none"
FingerprintArgs == {"empty", "fp"}

ScopeKeys == {"k"}
TagValues == {"a"}
EmptyTags == [k \in ScopeKeys |-> Absent]
EmptyExtra == [k \in ScopeKeys |-> None]

\* max_breadcrumbs as given to init() / ScopeManager: it is not validated,
\* so it may be negative.
Capacities == (0 - 1) .. MaxCap

ScopeHandles == 1 .. Len(scopes)

\* Scope(...): a scope object referring to containers t, x and b.
NewScope(user, t, x, b, fingerprint, cap) ==
  [ user |-> user, tags |-> t, extra |-> x, breadcrumbs |-> b,
    fingerprint |-> fingerprint, max_breadcrumbs |-> cap,
    \* history: the breadcrumbs add_breadcrumb has inserted into this scope
    \* since it was created or last cleared, in insertion order
    added |-> << >> ]

\* ScopeManager.get_current_scope() in execution context e.
get_current_scope(e) ==
  IF current_scope[e] # None THEN current_scope[e] ELSE GlobalScope

\* What a reader of scope h sees.
Tags(h) == tag_dicts[scopes[h].tags]
Extra(h) ==
  [k \in ScopeKeys |->
     IF extra_dicts[scopes[h].extra][k] = None THEN Absent
     ELSE nested[extra_dicts[scopes[h].extra][k]]]
Breadcrumbs(h) ==
  [i \in 1 .. Len(crumb_lists[scopes[h].breadcrumbs]) |->
     crumbs[crumb_lists[scopes[h].breadcrumbs][i]]]
ScopeView(h) ==
  [ user |-> scopes[h].user, tags |-> Tags(h), extra |-> Extra(h),
    breadcrumbs |-> Breadcrumbs(h), fingerprint |-> scopes[h].fingerprint,
    max_breadcrumbs |-> scopes[h].max_breadcrumbs ]

\* The objects scope h holds directly: the entries of its containers.
ScopeEntries(h) ==
  [ tags |-> Tags(h), extra |-> extra_dicts[scopes[h].extra],
    breadcrumbs |-> crumb_lists[scopes[h].breadcrumbs] ]

\* The last k elements of s (all of s if it has no more than k).
LastK(s, k) ==
  IF Len(s) <= k THEN s ELSE SubSeq(s, Len(s) - k + 1, Len(s))

\* Variant of the ring-buffer loop that never removes anything.
PopWhileOver_keep(list, cap) == [list |-> list, raised |-> FALSE]

\* add_breadcrumb's loop `while len(breadcrumbs) > max: breadcrumbs.pop(0)`;
\* pop(0) on an empty list raises IndexError (a negative max).
RECURSIVE PopWhileOver(_, _)
PopWhileOver(list, cap) ==
  IF Len(list) > cap
  THEN IF list = << >>
       THEN [list |-> list, raised |-> TRUE]
       ELSE PopWhileOver(Tail(list), cap)
  ELSE [list |-> list, raised |-> FALSE]

\* `dict(self.user) if self.user else None`, and the same for fingerprint:
\* an empty dict or list is falsy and becomes None.
CopyIfTruthy(v) == IF v = "empty" THEN "none" ELSE v

\* Variant of clone() that hands its own containers to the new scope.
CloneContainers_shared(h) ==
  [ tags |-> scopes[h].tags, extra |-> scopes[h].extra,
    breadcrumbs |-> scopes[h].breadcrumbs,
    tag_dicts |-> tag_dicts, extra_dicts |-> extra_dicts,
    crumb_lists |-> crumb_lists ]

\* The containers Scope.clone() builds for the new scope: dict(self.tags),
\* dict(self.extra) and list(self.breadcrumbs) are new objects with the same
\* entries (the values and Breadcrumb objects themselves are not copied).
CloneContainers(h) ==
  [ tags |-> Len(tag_dicts) + 1, extra |-> Len(extra_dicts) + 1,
    breadcrumbs |-> Len(crumb_lists) + 1,
    tag_dicts |-> Append(tag_dicts, tag_dicts[scopes[h].tags]),
    extra_dicts |-> Append(extra_dicts, extra_dicts[scopes[h].extra]),
    crumb_lists |-> Append(crumb_lists, crumb_lists[scopes[h].breadcrumbs]) ]

\* Scope.clone() of scope h: appends the new scope object to `scopes`.
CloneInto(h) ==
  LET c == CloneContainers(h) IN
  /\ tag_dicts' = c.tag_dicts
  /\ extra_dicts' = c.extra_dicts
  /\ crumb_lists' = c.crumb_lists
  /\ scopes' = Append(scopes,
       NewScope(CopyIfTruthy(scopes[h].user), c.tags, c.extra, c.breadcrumbs,
                CopyIfTruthy(scopes[h].fingerprint),
                scopes[h].max_breadcrumbs))

\* Variant of the reset that always falls back to the global scope.
ResetScope_global(frame) == None

\* _current_scope.reset(token): the value the variable had before the set.
ResetScope(frame) == frame.token

\* Scope.set_user(user) on scope h.
ScopeSetUser(h, u) ==
  /\ calls < MaxCalls
  /\ calls' = calls + 1
  /\ scopes' = [scopes EXCEPT ![h].user = u]
  /\ last_call' = Call("set_user", "main", h, None)
  /\ UNCHANGED << tag_dicts, extra_dicts, crumb_lists, crumbs, nested,
                  current_scope, scope_frames >>
  /\ UNCHANGED not_scope_vars

\* Scope.set_tag(key, value) on scope h.
ScopeSetTag(h, k, v) ==
  /\ calls < MaxCalls
  /\ calls' = calls + 1
  /\ tag_dicts' = [tag_dicts EXCEPT ![scopes[h].tags][k] = v]
  /\ last_call' = Call("set_tag", "main", h, None)
  /\ UNCHANGED << scopes, extra_dicts, crumb_lists, crumbs, nested,
                  current_scope, scope_frames >>
  /\ UNCHANGED not_scope_vars

\* Scope.set_extra(key, value) on scope h; the value is a new mutable object.
ScopeSetExtra(h, k) ==
  /\ calls < MaxCalls
  /\ calls' = calls + 1
  /\ nested' = Append(nested, "v0")
  /\ extra_dicts' = [extra_dicts EXCEPT ![scopes[h].extra][k] = Len(nested) + 1]
  /\ last_call' = Call("set_extra", "main", h, None)
  /\ UNCHANGED << scopes, tag_dicts, crumb_lists, crumbs,
                  current_scope, scope_frames >>
  /\ UNCHANGED not_scope_vars

\* Scope.set_fingerprint(fingerprint) on scope h.
ScopeSetFingerprint(h, f) ==
  /\ calls < MaxCalls
  /\ calls' = calls + 1
  /\ scopes' = [scopes EXCEPT ![h].fingerprint = f]
  /\ last_call' = Call("set_fingerprint", "main", h, None)
  /\ UNCHANGED << tag_dicts, extra_dicts, crumb_lists, crumbs, nested,
                  current_scope, scope_frames >>
  /\ UNCHANGED not_scope_vars

\* Scope.add_breadcrumb(...) on scope h: a new Breadcrumb is appended and
\* the list is cut down to max_breadcrumbs; the call raises IndexError when
\* the loop pops from the empty list.
ScopeAddBreadcrumb(h) ==
  /\ Len(crumbs) < MaxCrumbs
  /\ LET c == Len(crumbs) + 1
         r == PopWhileOver(Append(crumb_lists[scopes[h].breadcrumbs], c),
                           scopes[h].max_breadcrumbs)
     IN /\ crumbs' = Append(crumbs, [data |-> "d0"])
        /\ crumb_lists' = [crumb_lists EXCEPT ![scopes[h].breadcrumbs] = r.list]
        /\ scopes' = [scopes EXCEPT ![h].added = Append(@, c)]
        /\ last_call' = Call(IF r.raised THEN "add_breadcrumb raised"
                             ELSE "add_breadcrumb", "main", h, None)
  /\ UNCHANGED << tag_dicts, extra_dicts, nested, current_scope,
                  scope_frames, calls >>
  /\ UNCHANGED not_scope_vars

\* Scope.clear_breadcrumbs() on scope h: a new empty list.
ScopeClearBreadcrumbs(h) ==
  /\ calls < MaxCalls
  /\ calls' = calls + 1
  /\ crumb_lists' = Append(crumb_lists, << >>)
  /\ scopes' = [scopes EXCEPT ![h].breadcrumbs = Len(crumb_lists) + 1,
                              ![h].added = << >>]
  /\ last_call' = Call("clear_breadcrumbs", "main", h, None)
  /\ UNCHANGED << tag_dicts, extra_dicts, crumbs, nested,
                  current_scope, scope_frames >>
  /\ UNCHANGED not_scope_vars

\* Scope.clear() on scope h: new empty containers, no user, no fingerprint.
ScopeClear(h) ==
  /\ calls < MaxCalls
  /\ calls' = calls + 1
  /\ tag_dicts' = Append(tag_dicts, EmptyTags)
  /\ extra_dicts' = Append(extra_dicts, EmptyExtra)
  /\ crumb_lists' = Append(crumb_lists, << >>)
  /\ scopes' = [scopes EXCEPT ![h] =
       NewScope(NoUser, Len(tag_dicts) + 1, Len(extra_dicts) + 1,
                Len(crumb_lists) + 1, NoFingerprint, @.max_breadcrumbs)]
  /\ last_call' = Call("clear", "main", h, None)
  /\ UNCHANGED << crumbs, nested, current_scope, scope_frames >>
  /\ UNCHANGED not_scope_vars

\* scope.clone() called by the application on scope h.
ScopeClone(h) ==
  /\ Len(scopes) < MaxScopes
  /\ CloneInto(h)
  /\ last_call' = Call("clone", "main", h, None)
  /\ UNCHANGED << crumbs, nested, current_scope, scope_frames, calls >>
  /\ UNCHANGED not_scope_vars

\* with_scope / with_scope_async up to the call of the callback, in
\* execution context e: the current scope is cloned and the clone is set as
\* the current scope; the token remembers the variable's value.
WithScopeEnter(e) ==
  /\ Len(scopes) < MaxScopes
  /\ CloneInto(get_current_scope(e))
  /\ current_scope' = [current_scope EXCEPT ![e] = Len(scopes) + 1]
  /\ scope_frames' = [scope_frames EXCEPT ![e] =
       Append(@, [ token |-> current_scope[e],
                   entry |-> get_current_scope(e),
                   scope |-> Len(scopes) + 1 ])]
  /\ last_call' = Call("with_scope", e, Len(scopes) + 1, None)
  /\ UNCHANGED << crumbs, nested, calls >>
  /\ UNCHANGED not_scope_vars

\* with_scope / with_scope_async from the return (or the exception) of the
\* callback: the finally clause resets the variable with the token.  Calls
\* nest, so the innermost open call is the one that returns.
WithScopeExit(e, raised) ==
  /\ scope_frames[e] # << >>
  /\ LET frame == scope_frames[e][Len(scope_frames[e])] IN
       /\ current_scope' = [current_scope EXCEPT ![e] = ResetScope(frame)]
       /\ last_call' = Call(IF raised THEN "with_scope raised"
                            ELSE "with_scope returned", e, frame.scope, frame.entry)
  /\ scope_frames' = [scope_frames EXCEPT ![e] = SubSeq(@, 1, Len(@) - 1)]
  /\ UNCHANGED << scopes, tag_dicts, extra_dicts, crumb_lists, crumbs,
                  nested, calls >>
  /\ UNCHANGED not_scope_vars

\* The application changes, in place, the object stored under key k in the
\* extra of scope h (e.g. scope.extra[k].append(x)).
MutateExtraValue(h, k) ==
  /\ calls < MaxCalls
  /\ extra_dicts[scopes[h].extra][k] # None
  /\ nested[extra_dicts[scopes[h].extra][k]] = "v0"
  /\ calls' = calls + 1
  /\ nested' = [nested EXCEPT ![extra_dicts[scopes[h].extra][k]] = "v1"]
  /\ last_call' = Call("mutate_extra_value", "main", h, None)
  /\ UNCHANGED << scopes, tag_dicts, extra_dicts, crumb_lists, crumbs,
                  current_scope, scope_frames >>
  /\ UNCHANGED not_scope_vars

\* The application changes the data of the i-th breadcrumb of scope h
\* (Breadcrumb is a plain dataclass).
MutateBreadcrumbData(h, i) ==
  /\ calls < MaxCalls
  /\ i \in 1 .. Len(crumb_lists[scopes[h].breadcrumbs])
  /\ crumbs[crumb_lists[scopes[h].breadcrumbs][i]].data = "d0"
  /\ calls' = calls + 1
  /\ crumbs' = [crumbs EXCEPT ![crumb_lists[scopes[h].breadcrumbs][i]].data = "d1"]
  /\ last_call' = Call("mutate_breadcrumb_data", "main", h, None)
  /\ UNCHANGED << scopes, tag_dicts, extra_dicts, crumb_lists, nested,
                  current_scope, scope_frames >>
  /\ UNCHANGED not_scope_vars

\* The state after ScopeManager(max_breadcrumbs = one of caps): the global
\* scope with empty containers, no current scope set.
InitScopes(caps) ==
  /\ \E cap \in caps :
       scopes = << NewScope(NoUser, 1, 1, 1, NoFingerprint, cap) >>
  /\ tag_dicts = << EmptyTags >>
  /\ extra_dicts = << EmptyExtra >>
  /\ crumb_lists = << << >> >>
  /\ crumbs = << >>
  /\ nested = << >>
  /\ current_scope = [e \in ExecCtxs |-> None]
  /\ scope_frames = [e \in ExecCtxs |-> << >>]

\* The default max_breadcrumbs (SyntraOptions.max_breadcrumbs).
DefaultMaxBreadcrumbs == 100

\* --------------------------------------------------------------- transport
\* Part 3: the transport (transport/base.py).  Records are numbered in the
\* order they are created.  A task is an asyncio task (or the caller) that is
\* inside at most one call of send_error, send_spans, send_logs or flush; it
\* is suspended only while it awaits send_payload or asyncio.sleep, and
\* everything between two suspensions happens in one step.

Kinds == {"errors", "spans", "logs"}
KindOrder_reversed == << "logs", "spans", "errors" >>
\* BaseTransport.flush handles the kinds in this order.
KindOrder == << "errors", "spans", "logs" >>

TaskIds == {1, 2}
BatchSizes == 1 .. MaxBatch
RetryCounts == 0 .. MaxRetries
\* The retry counts of the runs that look at the queues: no attempt, or one.
FewRetries == {0, 1}
\* How many records one send_spans / send_logs call brings.
ListSizes == {1, 2}

\* The backoff of _send_with_retry: min(1.0 * 2 ** attempt, 10.0), seconds.
BackoffBase == 1
BackoffCap == 10
Backoff_uncapped(attempt) == BackoffBase * (2 ^ attempt)

Backoff(attempt) ==
  IF BackoffBase * (2 ^ attempt) < BackoffCap
  THEN BackoffBase * (2 ^ attempt) ELSE BackoffCap

\* What the HTTP client does with one POST: it answers with a status code,
\* or the timeout it was built with (httpx.AsyncClient(timeout = ...)) runs
\* out and client.post raises.  NoResponse: no POST has been answered yet.
Statuses == {200, 302, 399, 400, 404, 500}
Responses ==
  {[timed_out |-> FALSE, status |-> s] : s \in Statuses}
    \cup {[timed_out |-> TRUE, status |-> 0]}
NoResponse == [timed_out |-> FALSE, status |-> 0]

\* Variant that raises for the server errors only.
send_payload_5xx(resp) ==
  IF resp.timed_out THEN "raised"
  ELSE IF resp.status >= 500 THEN "raised" ELSE "returned"

\* HttpTransport.send_payload / OtlpTransport.send_payload once the POST is
\* over: the client's timeout exception propagates, a status >= 400 raises
\* Exception, anything else returns.
send_payload(resp) ==
  IF resp.timed_out THEN "raised"
  ELSE IF resp.status >= 400 THEN "raised" ELSE "returned"

IdleTask ==
  [ op |-> "idle", pc |-> "idle", kind |-> "none", batch |-> None,
    attempt |-> 0, rest |-> << >>, first_batch |-> None ]

\* Variants of the two slices: the newest records instead of the oldest, a
\* queue that keeps what was taken, and a queue that loses one record more.
BatchOf_newest(q) == LastK(q, max_batch_size)
Remainder_kept(q) == q
Remainder_skips(q) ==
  SubSeq(q, (IF Len(q) < max_batch_size THEN Len(q) ELSE max_batch_size) + 2, Len(q))

\* queue[:max_batch_size] and queue[max_batch_size:].
BatchOf(q) == SubSeq(q, 1, IF Len(q) < max_batch_size THEN Len(q) ELSE max_batch_size)
Remainder(q) ==
  SubSeq(q, (IF Len(q) < max_batch_size THEN Len(q) ELSE max_batch_size) + 1, Len(q))

\* A batch handed to _send_with_retry (history): its records, who drained
\* it, the send_payload calls made for it, the delays slept between them and
\* what became of it.
NewBatch(kind, items, t, auto) ==
  [ kind |-> kind, items |-> items, task |-> t, auto |-> auto,
    sends |-> 0, failures |-> 0, delays |-> << >>, state |-> "in flight" ]

\* Variant that puts the records of a failed batch back at the head of the
\* queue.
AfterGiveUp_requeue(q, items) == items \o q

\* What _send_with_retry does with the queue when every attempt has failed:
\* nothing.
AfterGiveUp(q, items) == q

\* The part of the transport one step works on.
TransportState == [ queues |-> queues, batches |-> batches, task |-> IdleTask ]

\* Runs task t from the point where it is about to flush the kinds listed in
\* rest (indices into KindOrder), up to its next suspension: a kind with an
\* empty queue is skipped; otherwise the head of the queue is drained and
\* send_payload is called for it (with max_retries <= 0 the loop body never
\* runs and the batch is given up at once).
RECURSIVE RunFlush(_, _, _, _, _)
RunFlush(st, t, op, rest, auto) ==
  IF rest = << >>
  THEN [st EXCEPT !.task = IdleTask]
  ELSE LET k == KindOrder[rest[1]]
           q == st.queues[k]
       IN IF q = << >>
          THEN RunFlush(st, t, op, Tail(rest), auto)
          ELSE LET b == NewBatch(k, BatchOf(q), t, auto)
                   n == Len(st.batches) + 1
                   first == IF st.task.first_batch = None THEN n
                            ELSE st.task.first_batch
               IN IF max_retries <= 0
                  THEN RunFlush(
                         [ queues |-> [st.queues EXCEPT
                              ![k] = AfterGiveUp(Remainder(q), b.items)],
                           batches |-> Append(st.batches,
                              [b EXCEPT !.state = "dropped"]),
                           task |-> [st.task EXCEPT !.first_batch = first] ],
                         t, op, Tail(rest), auto)
                  ELSE [ queues |-> [st.queues EXCEPT ![k] = Remainder(q)],
                         batches |-> Append(st.batches, [b EXCEPT !.sends = 1]),
                         task |-> [ op |-> op, pc |-> "send", kind |-> k,
                                    batch |-> n, attempt |-> 0,
                                    rest |-> Tail(rest),
                                    first_batch |-> first ] ]

\* Mutant of KindIndex: every send_* call flushes the error queue.
KindIndex_errors(k) == 1

\* The _flush_* method a send_* call of kind k awaits when its queue is
\* full: the one of its own kind (an index into KindOrder).
KindIndex(k) == CHOOSE i \in 1 .. 3 : KindOrder[i] = k

\* send_error / send_spans / send_logs called in task t with n new records:
\* they are appended to the queue of their kind, and the queue is flushed
\* when it has reached max_batch_size.  What this does to the transport:
EnqueueStep(t, op, k, n) ==
  /\ tasks[t].pc = "idle"
  /\ records + n <= MaxRecords
  /\ LET new == [i \in 1 .. n |-> records + i]
         q == queues[k] \o new
         st == [ queues |-> [queues EXCEPT ![k] = q], batches |-> batches,
                 task |-> IdleTask ]
         r == IF Len(q) >= max_batch_size
              THEN RunFlush(st, t, op, << KindIndex(k) >>, TRUE)
              ELSE st
     IN /\ queues' = r.queues
        /\ batches' = r.batches
        /\ tasks' = [tasks EXCEPT ![t] = r.task]
        /\ enqueued' = [enqueued EXCEPT ![k] = @ \o new]
  /\ records' = records + n
  /\ last_call' = Call(op, "main", t, None)
  /\ UNCHANGED << max_batch_size, max_retries, last_response, calls >>

Enqueue(t, op, k, n) == EnqueueStep(t, op, k, n) /\ UNCHANGED not_transport_vars

SendError(t) == Enqueue(t, "send_error", "errors", 1)
SendSpans(t, n) == Enqueue(t, "send_spans", "spans", n)
SendLogs(t, n) == Enqueue(t, "send_logs", "logs", n)

\* BaseTransport.flush() called in task t: what it does to the transport.
FlushStep(t) ==
  /\ tasks[t].pc = "idle"
  /\ LET r == RunFlush(TransportState, t, "flush", << 1, 2, 3 >>, FALSE) IN
       /\ queues' = r.queues
       /\ batches' = r.batches
       /\ tasks' = [tasks EXCEPT ![t] = r.task]
  /\ last_call' = Call("flush", "main", t, None)
  /\ UNCHANGED << max_batch_size, max_retries, records, enqueued,
                  last_response, calls >>

\* BaseTransport.flush() called in task t.
Flush(t) == FlushStep(t) /\ UNCHANGED not_transport_vars

\* The send_payload call task t awaits returns (ok) or raises (~ ok).  On
\* success, and on the failure of the last attempt, _send_with_retry returns
\* to the flush that called it; otherwise the task sleeps the backoff delay.
SendOutcome(t, ok) ==
  /\ tasks[t].pc = "send"
  /\ LET tk == tasks[t]
         b == tk.batch
     IN IF ok
        THEN LET r == RunFlush(
                        [ queues |-> queues,
                          batches |-> [batches EXCEPT ![b].state = "sent"],
                          task |-> tk ],
                        t, tk.op, tk.rest, FALSE)
             IN /\ queues' = r.queues
                /\ batches' = r.batches
                /\ tasks' = [tasks EXCEPT ![t] = r.task]
                /\ last_call' = Call("send_payload returned", "main", t, None)
        ELSE IF tk.attempt < max_retries - 1
        THEN /\ batches' = [batches EXCEPT
                  ![b].failures = @ + 1,
                  ![b].delays = Append(@, Backoff(tk.attempt))]
             /\ tasks' = [tasks EXCEPT ![t].pc = "sleep"]
             /\ last_call' = Call("send_payload raised", "main", t, None)
             /\ UNCHANGED queues
        ELSE LET r == RunFlush(
                        [ queues |-> [queues EXCEPT ![tk.kind] =
                             AfterGiveUp(@, batches[b].items)],
                          batches |-> [batches EXCEPT
                             ![b].failures = @ + 1, ![b].state = "dropped"],
                          task |-> tk ],
                        t, tk.op, tk.rest, FALSE)
             IN /\ queues' = r.queues
                /\ batches' = r.batches
                /\ tasks' = [tasks EXCEPT ![t] = r.task]
                /\ last_call' = Call("send_with_retry gave up", "main", t, None)
  /\ UNCHANGED << max_batch_size, max_retries, records, enqueued, calls >>
  /\ UNCHANGED not_transport_vars

\* Mutant of SendResult: _send_with_retry does not return after a send that
\* succeeded, the loop goes on to its next attempt.
SendResult_no_return(t, ok) ==
  IF ok /\ tasks[t].pc = "send" /\ tasks[t].attempt < max_retries - 1
  THEN /\ tasks' = [tasks EXCEPT ![t].attempt = @ + 1]
       /\ batches' = [batches EXCEPT ![tasks[t].batch].sends = @ + 1]
       /\ last_call' = Call("send_payload returned", "main", t, None)
       /\ UNCHANGED << max_batch_size, max_retries, queues, records, enqueued,
                       last_response, calls >>
       /\ UNCHANGED not_transport_vars
  ELSE SendOutcome(t, ok) /\ UNCHANGED last_response

\* The abstract BaseTransport.send_payload: it returns or it raises.
SendResult(t, ok) == SendOutcome(t, ok) /\ UNCHANGED last_response

\* The send_payload of the HTTP and OTLP transports: the POST task t awaits
\* is answered with resp.
HttpSendResult(t, resp) ==
  /\ SendOutcome(t, send_payload(resp) = "returned")
  /\ last_response' = resp

\* asyncio.sleep(delay) of task t is over: the next attempt calls
\* send_payload again.
Wake(t) ==
  /\ tasks[t].pc = "sleep"
  /\ tasks' = [tasks EXCEPT ![t].pc = "send", ![t].attempt = @ + 1]
  /\ batches' = [batches EXCEPT ![tasks[t].batch].sends = @ + 1]
  /\ last_call' = Call("send_payload called", "main", t, None)
  /\ UNCHANGED << max_batch_size, max_retries, queues, records, enqueued,
                  last_response, calls >>
  /\ UNCHANGED not_transport_vars

\* The state after BaseTransport.__init__(max_batch_size, max_retries).
InitTransport(sizes, retries) ==
  /\ max_batch_size \in sizes
  /\ max_retries \in retries
  /\ queues = [k \in Kinds |-> << >>]
  /\ tasks = [t \in TaskIds |-> IdleTask]
  /\ records = 0
  /\ batches = << >>
  /\ enqueued = [k \in Kinds |-> << >>]
  /\ last_response = NoResponse

\* The defaults of BaseTransport.__init__.
DefaultMaxBatchSize == 100
DefaultMaxRetries == 3

\* ------------------------------------------- trace context propagation
\* (tracing/context.py)
\*
\* A header value is a text: the sequence of its characters.  The contexts
\* of this part carry their identifiers as texts too, the way the program
\* holds them.  PyNone stands for Python's None where a text may stand: it is
\* no text (its only element is not a character).

PyNone == << "None" >>
EmptyText == << >>

\* Python's truth test of a text or None.
Truthy(v) == v # PyNone /\ v # EmptyText

\* Python's `a or b`.
Or(a, b) == IF Truthy(a) THEN a ELSE b

HexChars ==
  << "0", "1", "2", "3", "4", "5", "6", "7", "8", "9",
     "a", "b", "c", "d", "e", "f" >>
HexUpper == {"A", "B", "C", "D", "E", "F"}
HexDigits == {HexChars[i] : i \in 1 .. 16} \cup HexUpper

\* The whitespace str.strip() and int() remove, as far as the inputs have it.
Whitespace == {" ", "\n"}

\* str.lower(), on the letters the inputs have.
LowerChar(c) ==
  CASE c = "A" -> "a" [] c = "B" -> "b" [] c = "C" -> "c" [] c = "D" -> "d"
    [] c = "E" -> "e" [] c = "F" -> "f" [] c = "X" -> "x" [] OTHER -> c
Lower(s) == [i \in 1 .. Len(s) |-> LowerChar(s[i])]

FirstOf(S) == CHOOSE i \in S : \A j \in S : i <= j
LastOf(S) == CHOOSE i \in S : \A j \in S : j <= i

\* str.strip().
Strip(s) ==
  LET idx == {i \in 1 .. Len(s) : s[i] \notin Whitespace}
  IN IF idx = {} THEN EmptyText ELSE SubSeq(s, FirstOf(idx), LastOf(idx))

\* str.split(sep): the segments between the separators, empty ones too.
RECURSIVE Split(_, _)
Split(s, sep) ==
  LET idx == {i \in 1 .. Len(s) : s[i] = sep}
  IN IF idx = {} THEN << s >>
     ELSE << SubSeq(s, 1, FirstOf(idx) - 1) >>
            \o Split(SubSeq(s, FirstOf(idx) + 1, Len(s)), sep)

\* re.match(r"^[0-9a-f]{n}$", s, re.IGNORECASE): n hex digits of either
\* case; `$` also matches just before a newline that ends s.
MatchHex(s, n) ==
  /\ Len(s) = n \/ (Len(s) = n + 1 /\ s[n + 1] = "\n")
  /\ \A i \in 1 .. n : s[i] \in HexDigits

HexValue(c) == (CHOOSE i \in 1 .. 16 : HexChars[i] = LowerChar(c)) - 1

RECURSIVE HexNumber(_)
HexNumber(ds) ==
  IF ds = << >> THEN 0
  ELSE 16 * HexNumber(SubSeq(ds, 1, Len(ds) - 1)) + HexValue(ds[Len(ds)])

IsDigit(c) == c # "_"

\* Variant of int16 that takes two hex digits and nothing else.
int16_two_digits(text) ==
  IF Len(text) = 2 /\ \A i \in 1 .. 2 : text[i] \in HexDigits
  THEN [ok |-> TRUE, value |-> HexNumber(text)]
  ELSE [ok |-> FALSE, value |-> 0]

\* int(text, 16): surrounding whitespace is dropped, then come an optional
\* sign, an optional 0x / 0X prefix and hex digits of any number, which
\* single underscores may separate (one may also follow the prefix).
\* ok = FALSE stands for ValueError.
int16(text) ==
  LET s1 == Strip(text)
      signed == s1 # << >> /\ s1[1] \in {"+", "-"}
      s2 == IF signed THEN Tail(s1) ELSE s1
      prefixed == Len(s2) >= 2 /\ s2[1] = "0" /\ s2[2] \in {"x", "X"}
      s3 == IF prefixed THEN SubSeq(s2, 3, Len(s2)) ELSE s2
      s4 == IF prefixed /\ s3 # << >> /\ s3[1] = "_" THEN Tail(s3) ELSE s3
      ok == /\ s4 # << >>
            /\ \A i \in 1 .. Len(s4) : s4[i] \in HexDigits \cup {"_"}
            /\ s4[1] # "_" /\ s4[Len(s4)] # "_"
            /\ \A i \in 1 .. Len(s4) - 1 : ~ (s4[i] = "_" /\ s4[i + 1] = "_")
      n == HexNumber(SelectSeq(s4, IsDigit))
  IN IF ~ ok THEN [ok |-> FALSE, value |-> 0]
     ELSE [ok |-> TRUE, value |-> IF signed /\ s1[1] = "-" THEN 0 - n ELSE n]

RECURSIVE ToHex(_)
ToHex(n) ==
  IF n < 16 THEN << HexChars[n + 1] >>
  ELSE ToHex(n \div 16) \o << HexChars[(n % 16) + 1] >>

\* f"{n:02x}": lower-case hex, zero-padded to two characters, sign included.
format_02x(n) ==
  IF n < 0 THEN << "-" >> \o ToHex(0 - n)
  ELSE IF n < 16 THEN << "0" >> \o ToHex(n) ELSE ToHex(n)

\* SpanContext(trace_id, span_id, trace_flags, trace_state) with texts for
\* identifiers; NoWireContext is None.
WireContext(t, s, f, st) ==
  [trace_id |-> t, span_id |-> s, trace_flags |-> f, trace_state |-> st]
NoWireContext == WireContext(EmptyText, EmptyText, 0, PyNone)

\* The lengths of the identifiers in a traceparent header.
TraceIdLen == 32
SpanIdLen == 16

Rep(c, n) == [i \in 1 .. n |-> c]

\* The text of a generated identifier: the model's n-th identifier stands
\* for the hex text of n, as long as os.urandom(len / 2).hex() makes it.
IdText(n, len) == Rep("0", len - Len(ToHex(n))) \o ToHex(n)

\* The ambient context as the program holds it: with texts for identifiers
\* (a context the tracer made has no trace_state).
WireOf(ctx) ==
  IF ctx = NoContext THEN NoWireContext
  ELSE WireContext(IdText(ctx.trace_id, TraceIdLen),
                   IdText(ctx.span_id, SpanIdLen), ctx.trace_flags, PyNone)

\* parse_traceparent(header).
parse_traceparent(header) ==
  IF header = EmptyText THEN NoWireContext
  ELSE LET parts == Split(Strip(header), "-") IN
    IF Len(parts) # 4 THEN NoWireContext
    ELSE LET version == parts[1]
             trace_id == parts[2]
             span_id == parts[3]
             flags == int16(parts[4])
         IN IF version # << "0", "0" >> THEN NoWireContext
            ELSE IF ~ MatchHex(trace_id, TraceIdLen) THEN NoWireContext
            ELSE IF trace_id = Rep("0", TraceIdLen) THEN NoWireContext
            ELSE IF ~ MatchHex(span_id, SpanIdLen) THEN NoWireContext
            ELSE IF span_id = Rep("0", SpanIdLen) THEN NoWireContext
            ELSE IF ~ flags.ok THEN NoWireContext
            ELSE WireContext(Lower(trace_id), Lower(span_id),
                             flags.value, PyNone)

\* Variant that writes the sampled bit only.
create_traceparent_sampled_bit(context) ==
  << "0", "0", "-" >> \o context.trace_id \o << "-" >> \o context.span_id
    \o << "-" >> \o format_02x(context.trace_flags % 2)

\* create_traceparent(context).
create_traceparent(context) ==
  << "0", "0", "-" >> \o context.trace_id \o << "-" >> \o context.span_id
    \o << "-" >> \o format_02x(context.trace_flags)

\* The names a header map of this model may hold: the two propagation
\* headers in several capitalisations and one header of the application.
TRACEPARENT_HEADER == "traceparent"
TRACESTATE_HEADER == "tracestate"
HeaderNames ==
  { TRACEPARENT_HEADER, "Traceparent", "TRACEPARENT",
    TRACESTATE_HEADER, "Tracestate", "x-request-id" }

\* A header map maps the names it does not hold to PyNone, which is what
\* dict.get(name) returns for them.
EmptyHeaders == [n \in HeaderNames |-> PyNone]

\* Variant of inject_trace_context that always writes the tracestate header.
inject_trace_context_always_state(headers, context, ambient) ==
  LET ctx == IF context # NoWireContext THEN context ELSE ambient
  IN IF ctx = NoWireContext THEN headers
     ELSE [headers EXCEPT ![TRACEPARENT_HEADER] = create_traceparent(ctx),
                          ![TRACESTATE_HEADER] =
                             IF ctx.trace_state = PyNone THEN EmptyText
                             ELSE ctx.trace_state]

\* inject_trace_context(headers, context), ambient being what
\* get_current_context() returns; the result is the header map afterwards.
inject_trace_context(headers, context, ambient) ==
  LET ctx == IF context # NoWireContext THEN context ELSE ambient
  IN IF ctx = NoWireContext THEN headers
     ELSE LET h1 == [headers EXCEPT
                       ![TRACEPARENT_HEADER] = create_traceparent(ctx)]
          IN IF Truthy(ctx.trace_state)
             THEN [h1 EXCEPT ![TRACESTATE_HEADER] = ctx.trace_state]
             ELSE h1

\* Variant of extract_trace_context that forgets the tracestate header.
extract_trace_context_no_state(headers) ==
  LET traceparent == Or(headers[TRACEPARENT_HEADER],
                        headers["Traceparent"])
  IN IF ~ Truthy(traceparent) THEN NoWireContext
     ELSE parse_traceparent(traceparent)

\* extract_trace_context(headers).
extract_trace_context(headers) ==
  LET traceparent == Or(headers[TRACEPARENT_HEADER],
                        headers["Traceparent"])
  IN IF ~ Truthy(traceparent) THEN NoWireContext
     ELSE LET context == parse_traceparent(traceparent) IN
       IF context = NoWireContext THEN NoWireContext
       ELSE LET tracestate == Or(headers[TRACESTATE_HEADER],
                                 headers["Tracestate"])
            IN IF Truthy(tracestate)
               THEN [context EXCEPT !.trace_state = tracestate]
               ELSE context

\* create_traceparent(wire_ctx) is called and its result kept as the header.
CreateTraceparent ==
  /\ wire_pc = "start"
  /\ wire_ctx # NoWireContext
  /\ wire_header' = create_traceparent(wire_ctx)
  /\ wire_pc' = "created"
  /\ last_call' = Call("create_traceparent", "main", None, None)
  /\ UNCHANGED << wire_ctx, wire_result, carrier, calls >>
  /\ UNCHANGED not_codec_vars

\* parse_traceparent(wire_header) is called: on the header the application
\* received ("parsed") or on the one create_traceparent made ("decoded").
ParseTraceparent ==
  /\ wire_pc \in {"start", "created"}
  /\ wire_result' = parse_traceparent(wire_header)
  /\ wire_pc' = IF wire_pc = "created" THEN "decoded" ELSE "parsed"
  /\ last_call' = Call("parse_traceparent", "main", None, None)
  /\ UNCHANGED << wire_ctx, wire_header, carrier, calls >>
  /\ UNCHANGED not_codec_vars

\* inject_trace_context(carrier, wire_ctx) is called in execution context e.
InjectTraceContext(e) ==
  /\ wire_pc = "start"
  /\ carrier' = inject_trace_context(carrier, wire_ctx,
                                     WireOf(get_current_context(e)))
  /\ wire_pc' = "injected"
  /\ last_call' = Call("inject_trace_context", e, None, None)
  /\ UNCHANGED << wire_ctx, wire_header, wire_result, calls >>
  /\ UNCHANGED not_codec_vars

\* extract_trace_context(carrier) is called: on the headers the application
\* received ("extracted") or on the ones inject wrote ("carried").
ExtractTraceContext ==
  /\ wire_pc \in {"start", "injected"}
  /\ wire_result' = extract_trace_context(carrier)
  /\ wire_pc' = IF wire_pc = "injected" THEN "carried" ELSE "extracted"
  /\ last_call' = Call("extract_trace_context", "main", None, None)
  /\ UNCHANGED << wire_ctx, wire_header, carrier, calls >>
  /\ UNCHANGED not_codec_vars

\* No propagation call has been made: the arguments the application will
\* pass are one of ctxs, one of headers and one of maps.
InitCodec(ctxs, headers, maps) ==
  /\ wire_ctx \in ctxs
  /\ wire_header \in headers
  /\ carrier \in maps
  /\ wire_result = NoWireContext
  /\ wire_pc = "start"

\* The arguments of the propagation calls: the identifiers of the W3C
\* example header and what a peer may send in their place.
GoodTraceId ==
  << "4", "b", "f", "9", "2", "f", "3", "5", "7", "7", "b", "3", "4", "d", "a", "6",
     "a", "3", "c", "e", "9", "2", "9", "d", "0", "e", "0", "e", "4", "7", "3", "6" >>
GoodSpanId == << "0", "0", "f", "0", "6", "7", "a", "a", "0", "b", "a", "9", "0", "2", "b", "7" >>
VendorState == << "v", "=", "1" >>
UpperTraceId == [i \in 1 .. TraceIdLen |-> IF GoodTraceId[i] = "f" THEN "F" ELSE GoodTraceId[i]]

Versions == {<< "0", "0" >>, << "0", "1" >>, << "0" >>, << "f", "f" >>}

\* An identifier of the right form, in upper case, one character short or
\* long, with a letter that is no hex digit, with a newline after it, and
\* the all-zero identifier with and without a newline after it.
IdSegments(id) ==
  { id, [i \in 1 .. Len(id) |-> IF id[i] = "f" THEN "F" ELSE id[i]],
    SubSeq(id, 1, Len(id) - 1), id \o << "0" >>,
    [id EXCEPT ![2] = "g"], id \o << "\n" >>,
    Rep("0", Len(id)), Rep("0", Len(id)) \o << "\n" >> }

FlagSegments ==
  { << "0", "1" >>, << "0", "0" >>, << "f", "f" >>, << "F", "F" >>,
    << "1" >>, << "0", "0", "1" >>, << "z", "z" >>, << >>,
    << "0", "x", "0", "1" >>, << "+", "1" >>, << " ", "1" >>,
    << "0", "_", "1" >>, << "1", "_" >>, << "0", "x" >> }

Traceparent(v, t, s, f) ==
  v \o << "-" >> \o t \o << "-" >> \o s \o << "-" >> \o f

GoodHeader == Traceparent(<< "0", "0" >>, GoodTraceId, GoodSpanId, << "0", "1" >>)

\* The headers an application may receive: four segments of any of the
\* forms above, the good header with a segment less or more or inside
\* whitespace, and the empty header.
WireHeaders ==
  { Traceparent(v, t, s, f) :
      v \in Versions, t \in IdSegments(GoodTraceId),
      s \in IdSegments(GoodSpanId), f \in FlagSegments }
    \cup { << "0", "0", "-" >> \o GoodTraceId \o << "-" >> \o GoodSpanId,
           GoodHeader \o << "-", "0", "1" >>,
           << " " >> \o GoodHeader \o << "\n" >>,
           EmptyText }

\* The contexts an application may pass: identifiers in lower or upper
\* case, any flags byte and one value above it, no vendor state, an empty
\* one or one entry.
WireFlags == {0, 1, 2, 255, 256}
WireStates == {PyNone, EmptyText, VendorState}
WireContexts ==
  { WireContext(t, GoodSpanId, f, st) :
      t \in {GoodTraceId, UpperTraceId},
      f \in WireFlags, st \in WireStates }

\* The header maps an application may receive or already hold.
Carriers ==
  { [n \in HeaderNames |->
       CASE n = TRACEPARENT_HEADER -> a
         [] n = "Traceparent" -> b
         [] n = "TRACEPARENT" -> c
         [] n = TRACESTATE_HEADER -> d
         [] n = "Tracestate" -> e
         [] OTHER -> x] :
      a \in {PyNone, GoodHeader, EmptyText},
      b \in {PyNone, GoodHeader},
      c \in {PyNone, GoodHeader},
      d \in {PyNone, VendorState},
      e \in {PyNone, VendorState},
      x \in {PyNone, << "r" >>} }

\* No propagation call is made.
NoPropagation == InitCodec({NoWireContext}, {EmptyText}, {EmptyHeaders})

\* ------------------------------------------------------------------ client
\* Part 5: the client (client.py).  The application is one coroutine (the
\* main task, task 1 of the transport) running in an asyncio event loop; the
\* _send_error coroutines capture_exception hands to asyncio.create_task run
\* in task 2, in the order they were created, and only while the main task
\* is suspended in an await.  An await of a coroutine that finishes without
\* suspending gives no other task the chance to run.

\* options.errors_sample_rate in percent.
ErrorRates == {0, 50, 100}
\* options.before_send: no hook, a hook that returns the event it is given,
\* or a hook that returns None.
Hooks == {"none", "keep", "drop"}
\* The exceptions the application captures: type(error).__name__, str(error).
Exception(type, message) == [type |-> type, message |-> message]
Errors == {Exception("ValueError", "boom"), Exception("RuntimeError", "Tagged error")}
\* The tags argument of capture_exception: None (or {}), or a dict.
CallTags == {EmptyTags, [k \in ScopeKeys |-> "b"]}
\* The capture_exception calls the application makes.
CaptureArgs ==
  { a \in [error : Errors, tags : CallTags] :
      a.tags # EmptyTags => a.error.type = "ValueError" }

\* SyntraClient._should_sample(rate), with the outcome of random.random().
client_should_sample(rate, draw) ==
  IF rate >= 100 THEN TRUE
  ELSE IF rate <= 0 THEN FALSE
  ELSE draw < rate

\* {**scope.tags, **(tags or {})}: a new dict.
MergeTags(scope_tags, call_tags) ==
  [k \in ScopeKeys |->
     IF call_tags[k] # Absent THEN call_tags[k] ELSE scope_tags[k]]

\* What stands for None where an event or an event's dict may stand.
NoPayload ==
  [ type |-> "None", message |-> "None",
    context |-> [tags |-> EmptyTags, user |-> NoUser] ]
NoEvent ==
  [ type |-> "None", message |-> "None", tags |-> EmptyTags, user |-> NoUser,
    task |-> "none", record |-> None, payload |-> NoPayload ]

\* The TelemetryError capture_exception builds from the exception and the
\* scope h, and the task that will send it (history: the number of the
\* transport record made of it, and that record).
TelemetryError(type, message, tags, h) ==
  [ type |-> type, message |-> message,
    tags |-> MergeTags(Tags(h), tags), user |-> scopes[h].user,
    task |-> "scheduled", record |-> None, payload |-> NoPayload ]

\* Variant of the hook's result that is never None.
apply_before_send_kept(hook, event) == event

\* options.before_send(event).
apply_before_send(hook, event) == IF hook = "drop" THEN NoEvent ELSE event

\* TelemetryError.to_dict(): the fields of the event, the tags under
\* "context".
to_dict(event) ==
  [ type |-> event.type, message |-> event.message,
    context |-> [tags |-> event.tags, user |-> event.user] ]

\* A capture_exception call the application made (history): the exception,
\* the tags argument and the tags the current scope held at the call.
Capture(error, tags, h) ==
  [type |-> error.type, message |-> error.message, tags |-> tags, scope_tags |-> Tags(h)]

\* Where the main task stands inside client.flush() and client.close(): at
\* one of their awaits.
FlushStages ==
  { "transport.flush", "tracer.flush",
    "close: transport.flush", "close: tracer.flush", "close: tracer.close" }

\* The main task is suspended in an await: other tasks may run.
MainSuspended ==
  \/ main_pc = "awaiting"
  \/ main_pc \in FlushStages /\ tasks[1].pc # "idle"

\* client.set_tag(key, value): set_tag on the current scope.
ClientSetTag(k, v) ==
  /\ main_pc = "running"
  /\ ScopeSetTag(get_current_scope("main"), k, v)

\* client.capture_exception(error, tags): nothing is built when the event is
\* not sampled; the event the hook drops is not sent; any other event is
\* handed to a new task, which has not run when capture_exception returns
\* the event's id.
CaptureException(error, tags, draw) ==
  /\ main_pc = "running"
  /\ Len(captures) < MaxCaptures
  /\ captures' = Append(captures, Capture(error, tags, get_current_scope("main")))
  /\ IF ~ client_should_sample(errors_sample_rate, draw)
     THEN /\ UNCHANGED events
          /\ last_call' = Call("capture_exception", "main", None, None)
     ELSE LET event == TelemetryError(error.type, error.message, tags,
                                      get_current_scope("main"))
              processed == IF before_send # "none"
                           THEN apply_before_send(before_send, event)
                           ELSE event
          IN IF processed = NoEvent
             THEN /\ UNCHANGED events
                  /\ last_call' = Call("capture_exception", "main", None, None)
             ELSE /\ events' = Append(events, processed)
                  /\ last_call' = Call("capture_exception", "main", Len(events) + 1, None)
  /\ UNCHANGED << errors_sample_rate, before_send, main_pc, calls >>
  /\ UNCHANGED not_client_vars

\* The level argument of capture_message (LogLevel values or any string).
Levels == {"info"}
Messages == {"hello"}
\* {**scope.tags, "level": level_str}: a new dict.
MessageTags(scope_tags, level) ==
  [k \in ScopeKeys \cup {"level"} |->
     IF k = "level" THEN level ELSE scope_tags[k]]

\* client.capture_message(message, level): as capture_exception, with an
\* event of type "Message" that carries the level as a tag.
CaptureMessage(message, level, draw) ==
  /\ main_pc = "running"
  /\ Len(captures) < MaxCaptures
  /\ captures' = Append(captures, Capture(Exception("Message", message), EmptyTags,
                                          get_current_scope("main")))
  /\ IF ~ client_should_sample(errors_sample_rate, draw)
     THEN /\ UNCHANGED events
          /\ last_call' = Call("capture_message", "main", None, None)
     ELSE LET h == get_current_scope("main")
              event == [TelemetryError("Message", message, EmptyTags, h)
                          EXCEPT !.tags = MessageTags(Tags(h), level)]
              processed == IF before_send # "none"
                           THEN apply_before_send(before_send, event)
                           ELSE event
          IN IF processed = NoEvent
             THEN /\ UNCHANGED events
                  /\ last_call' = Call("capture_message", "main", None, None)
             ELSE /\ events' = Append(events, processed)
                  /\ last_call' = Call("capture_message", "main", Len(events) + 1, None)
  /\ UNCHANGED << errors_sample_rate, before_send, main_pc, calls >>
  /\ UNCHANGED not_client_vars

\* The application awaits something else (the tests await asyncio.sleep(0)).
AppAwait ==
  /\ main_pc = "running"
  /\ main_pc' = "awaiting"
  /\ last_call' = Call("await", "main", None, None)
  /\ UNCHANGED << errors_sample_rate, before_send, events, captures, calls >>
  /\ UNCHANGED not_client_vars

\* The main task is resumed: the tasks created before it suspended have run.
AppResume ==
  /\ main_pc = "awaiting"
  /\ \A i \in 1 .. Len(events) : events[i].task # "scheduled"
  /\ main_pc' = "running"
  /\ last_call' = Call("resumed", "main", None, None)
  /\ UNCHANGED << errors_sample_rate, before_send, events, captures, calls >>
  /\ UNCHANGED not_client_vars

\* The task created for event i runs _send_error: transport.send_error of
\* the event's dict.
RunSendError(i) ==
  /\ MainSuspended
  /\ events[i].task = "scheduled"
  /\ \A j \in 1 .. i - 1 : events[j].task # "scheduled"
  /\ EnqueueStep(2, "send_error", "errors", 1)
  /\ events' = [events EXCEPT ![i].task = "done", ![i].record = records + 1,
                              ![i].payload = to_dict(events[i])]
  /\ UNCHANGED << errors_sample_rate, before_send, main_pc, captures >>
  /\ UNCHANGED << tracer_vars, scope_vars, codec_vars >>

\* client.flush() up to the first suspension of `await transport.flush()`.
ClientFlush ==
  /\ main_pc = "running"
  /\ records + Len(finished_spans) <= MaxRecords
  /\ FlushStep(1)
  /\ main_pc' = "transport.flush"
  /\ UNCHANGED << errors_sample_rate, before_send, events, captures >>
  /\ UNCHANGED << tracer_vars, scope_vars, codec_vars >>

\* client.flush() after transport.flush() has returned: `await
\* tracer.flush()`, that is _flush_spans, which hands every finished span to
\* transport.send_spans.
ClientFlushTracer ==
  /\ main_pc \in {"transport.flush", "close: transport.flush"}
  /\ tasks[1].pc = "idle"
  /\ IF finished_spans = << >>
     THEN /\ last_call' = Call("tracer.flush", "main", None, None)
          /\ UNCHANGED << finished_spans, transport_vars, calls >>
     ELSE /\ finished_spans' = << >>
          /\ EnqueueStep(1, "send_spans", "spans", Len(finished_spans))
  /\ main_pc' = IF main_pc = "transport.flush" THEN "tracer.flush"
                ELSE "close: tracer.flush"
  /\ UNCHANGED << sample_rate, spans, static_attrs, active_spans,
                  current_context, now, ids, flush_tasks >>
  /\ UNCHANGED << errors_sample_rate, before_send, events, captures >>
  /\ UNCHANGED << scope_vars, codec_vars >>

\* client.flush() returns to the application.
ClientFlushReturn ==
  /\ main_pc = "tracer.flush"
  /\ tasks[1].pc = "idle"
  /\ main_pc' = "running"
  /\ last_call' = Call("client.flush returned", "main", None, None)
  /\ UNCHANGED << errors_sample_rate, before_send, events, captures, calls >>
  /\ UNCHANGED not_client_vars

\* client.close() up to the first suspension of its `await self.flush()`.
ClientClose ==
  /\ main_pc = "running"
  /\ records + Len(finished_spans) <= MaxRecords
  /\ FlushStep(1)
  /\ main_pc' = "close: transport.flush"
  /\ UNCHANGED << errors_sample_rate, before_send, events, captures >>
  /\ UNCHANGED << tracer_vars, scope_vars, codec_vars >>

\* client.close() after its flush() has returned: `await tracer.close()`,
\* which flushes the finished spans once more.
ClientCloseTracer ==
  /\ main_pc = "close: tracer.flush"
  /\ tasks[1].pc = "idle"
  /\ IF finished_spans = << >>
     THEN /\ last_call' = Call("tracer.close", "main", None, None)
          /\ UNCHANGED << finished_spans, transport_vars, calls >>
     ELSE /\ finished_spans' = << >>
          /\ EnqueueStep(1, "send_spans", "spans", Len(finished_spans))
  /\ main_pc' = "close: tracer.close"
  /\ UNCHANGED << sample_rate, spans, static_attrs, active_spans,
                  current_context, now, ids, flush_tasks >>
  /\ UNCHANGED << errors_sample_rate, before_send, events, captures >>
  /\ UNCHANGED << scope_vars, codec_vars >>

\* The rest of client.close(): tracer.close() clears the active registry,
\* transport.close() closes the HTTP client (the queues are left as they
\* are), and close() returns.
ClientCloseReturn ==
  /\ main_pc = "close: tracer.close"
  /\ tasks[1].pc = "idle"
  /\ active_spans' = {}
  /\ main_pc' = "closed"
  /\ last_call' = Call("client.close returned", "main", None, None)
  /\ UNCHANGED << sample_rate, spans, static_attrs, finished_spans,
                  current_context, now, ids, flush_tasks, calls >>
  /\ UNCHANGED << errors_sample_rate, before_send, events, captures >>
  /\ UNCHANGED << scope_vars, transport_vars, codec_vars >>

\* The state after SyntraClient(options) with one of the given sample rates
\* and hooks.
InitClient(rates, hooks) ==
  /\ errors_sample_rate \in rates
  /\ before_send \in hooks
  /\ events = << >>
  /\ main_pc = "running"
  /\ captures = << >>

\* The defaults of SyntraOptions: every error is sampled, no hook.
NoClient == InitClient({100}, {"none"})

\* ------------------------------------------------------ specifications

\* The state after Tracer.__init__(sample_rate = one of rates), before any
\* call; static holds the contents the application's attributes dict may have.
InitTracerIn(ctxs, rates, static) ==
  /\ sample_rate \in rates
  /\ spans = << >>
  /\ static_attrs \in static
  /\ active_spans = {}
  /\ finished_spans = << >>
  /\ current_context = [e \in ctxs |-> NoContext]
  /\ now = 1
  /\ ids = 0
  /\ flush_tasks = 0
  /\ calls = 0
  /\ last_call = NoCall

\* The same with one execution context.
InitTracer(rates, static) == InitTracerIn(ExecCtxs, rates, static)

\* The state of a process that has created a Tracer and left the scope
\* manager and the transport at their defaults.
InitWith(rates, static) ==
  /\ InitTracer(rates, static)
  /\ InitScopes({DefaultMaxBreadcrumbs})
  /\ InitTransport({DefaultMaxBatchSize}, {DefaultMaxRetries})
  /\ NoPropagation
  /\ NoClient

Init == InitWith(SampleRates, {EmptyDict})

\* The tracer's lifecycle: the application starts spans under the ambient
\* or an explicit parent, ends them (end, leaving a with block, on_span_end)
\* and sets the ambient context.
Next ==
  \/ \E e \in ExecCtxs, parent \in {None} \cup Handles, draw \in Draws :
       StartSpan(e, "none", "none", parent, draw)
  \/ \E h \in Handles : End(h)
  \/ \E h \in Handles : Exit(h, FALSE)
  \/ \E e \in ExecCtxs, h \in Handles : OnSpanEnd(e, h)
  \/ \E e \in ExecCtxs, ctx \in CallerContexts : SetCurrentContext(e, ctx)

Spec == Init /\ [][Next]_vars

\* One span's life: the application starts a span (with or without its own
\* attributes dict) and calls the span's methods in any order, any number of
\* times, while time passes.
NextSpan ==
  \/ \E e \in ExecCtxs, op \in OpArgs, attrs \in AttrsArgs, draw \in Draws :
       /\ spans = << >>
       /\ StartSpan(e, op, attrs, None, draw)
  \/ \E h \in Handles, a \in StatusArgs : SetStatus(h, a)
  \/ \E h \in Handles, kv \in AttrArgs : SetAttribute(h, kv[1], kv[2])
  \/ \E h \in Handles, upd \in BulkArgs : SetAttributes(h, upd)
  \/ \E h \in Handles : AddEvent(h, "evt")
  \/ \E h \in Handles : End(h)
  \/ \E h \in Handles, raised \in BOOLEAN : Exit(h, raised)
  \/ Tick
  \/ ClockSetBack

InitSpan == InitWith(SampleRates, StaticDicts)

SpecSpan == InitSpan /\ [][NextSpan]_vars

\* The tracer shared by two execution contexts: each starts spans and hands
\* spans to on_span_end, and the second context is forked from the first
\* at any moment.
NextFork ==
  \/ \E e \in ForkCtxs, draw \in Draws : StartSpan(e, "none", "none", None, draw)
  \/ \E e \in ForkCtxs, h \in Handles : OnSpanEnd(e, h)
  \/ Fork

InitFork ==
  /\ InitTracerIn(ForkCtxs, {100}, {EmptyDict})
  /\ InitScopes({DefaultMaxBreadcrumbs})
  /\ InitTransport({DefaultMaxBatchSize}, {DefaultMaxRetries})
  /\ NoPropagation
  /\ NoClient

SpecFork == InitFork /\ [][NextFork]_vars

\* The scopes of one process: the application sets data on the scopes it
\* holds (one breadcrumb among it) and enters and leaves with_scope calls,
\* which clone the current scope.
NextScope ==
  \/ \E h \in ScopeHandles, k \in ScopeKeys, v \in TagValues : ScopeSetTag(h, k, v)
  \/ \E h \in ScopeHandles, k \in ScopeKeys : ScopeSetExtra(h, k)
  \/ \E h \in ScopeHandles :
       /\ crumbs = << >>
       /\ ScopeAddBreadcrumb(h)
  \/ \E e \in ExecCtxs : WithScopeEnter(e)
  \/ \E e \in ExecCtxs, raised \in BOOLEAN : WithScopeExit(e, raised)
  \/ \E h \in ScopeHandles, k \in ScopeKeys : MutateExtraValue(h, k)
  \/ \E h \in ScopeHandles, i \in 1 .. MaxCrumbs : MutateBreadcrumbData(h, i)

InitScope ==
  /\ InitTracer({100}, {EmptyDict})
  /\ InitScopes({MaxCap})
  /\ InitTransport({DefaultMaxBatchSize}, {DefaultMaxRetries})
  /\ NoPropagation
  /\ NoClient

SpecScope == InitScope /\ [][NextScope]_vars

\* Scope objects outside with_scope, for every capacity: the application
\* adds breadcrumbs to the global scope and to one clone of it, sets their
\* user and fingerprint and clears them.
NextCrumbs ==
  \/ \E h \in ScopeHandles : ScopeAddBreadcrumb(h)
  \/ \E h \in ScopeHandles : ScopeClearBreadcrumbs(h)
  \/ \E h \in ScopeHandles : ScopeClear(h)
  \/ /\ scopes = << scopes[GlobalScope] >>
     /\ ScopeClone(GlobalScope)
  \/ \E h \in ScopeHandles, u \in UserArgs : ScopeSetUser(h, u)
  \/ \E h \in ScopeHandles, f \in FingerprintArgs : ScopeSetFingerprint(h, f)

InitCrumbs ==
  /\ InitTracer({100}, {EmptyDict})
  /\ InitScopes(Capacities)
  /\ InitTransport({DefaultMaxBatchSize}, {DefaultMaxRetries})
  /\ NoPropagation
  /\ NoClient

SpecCrumbs == InitCrumbs /\ [][NextCrumbs]_vars

\* The transport of one process: two tasks enqueue records, one of them
\* also calls flush, and the sends they wait for succeed or fail.  With at
\* most one attempt per batch (FewRetries) no task sleeps between attempts;
\* the retry loop is the subject of SpecRetry.
NextTransport ==
  \/ \E t \in TaskIds : SendError(t)
  \/ \E t \in TaskIds, n \in ListSizes : SendSpans(t, n)
  \/ \E t \in TaskIds : SendLogs(t, 1)
  \/ Flush(2)
  \/ \E t \in TaskIds, ok \in BOOLEAN : SendResult(t, ok)

InitQueues ==
  /\ InitTracer({100}, {EmptyDict})
  /\ InitScopes({DefaultMaxBreadcrumbs})
  /\ InitTransport(BatchSizes, FewRetries)
  /\ NoPropagation
  /\ NoClient

SpecTransport == InitQueues /\ [][NextTransport]_vars

\* One task sending errors through a transport with any retry count.
NextRetry ==
  \/ SendError(1)
  \/ Flush(1)
  \/ \E ok \in BOOLEAN : SendResult(1, ok)
  \/ Wake(1)

InitRetry ==
  /\ InitTracer({100}, {EmptyDict})
  /\ InitScopes({DefaultMaxBreadcrumbs})
  /\ InitTransport(BatchSizes, RetryCounts)
  /\ NoPropagation
  /\ NoClient

SpecRetry == InitRetry /\ [][NextRetry]_vars

\* One task hands span lists of any length up to MaxRecords to the
\* transport (Tracer._flush_spans passes every finished span at once) and
\* calls flush; nothing is enqueued while a flush is under way.
NextDrain ==
  \/ \E n \in 1 .. MaxRecords : SendSpans(1, n)
  \/ SendError(1)
  \/ Flush(1)
  \/ \E ok \in BOOLEAN : SendResult(1, ok)

InitDrain ==
  /\ InitTracer({100}, {EmptyDict})
  /\ InitScopes({DefaultMaxBreadcrumbs})
  /\ InitTransport(BatchSizes, {1})
  /\ NoPropagation
  /\ NoClient

SpecDrain == InitDrain /\ [][NextDrain]_vars

\* One task sending errors through the HTTP (or OTLP) transport: every POST
\* is answered with a status code or runs into the client's timeout.
HttpRetries == {1, DefaultMaxRetries}

NextHttp ==
  \/ SendError(1)
  \/ Flush(1)
  \/ \E resp \in Responses : HttpSendResult(1, resp)
  \/ Wake(1)

InitHttp ==
  /\ InitTracer({100}, {EmptyDict})
  /\ InitScopes({DefaultMaxBreadcrumbs})
  /\ InitTransport(BatchSizes, HttpRetries)
  /\ NoPropagation
  /\ NoClient

SpecHttp == InitHttp /\ [][NextHttp]_vars

\* The traceparent codec on its own: the application encodes a context and
\* parses the result, or parses a header it received.
NextCodec ==
  \/ CreateTraceparent
  \/ ParseTraceparent

InitCodecs ==
  /\ InitTracer({100}, {EmptyDict})
  /\ InitScopes({DefaultMaxBreadcrumbs})
  /\ InitTransport({DefaultMaxBatchSize}, {DefaultMaxRetries})
  /\ \/ InitCodec(WireContexts, {EmptyText}, {EmptyHeaders})
     \/ InitCodec({NoWireContext}, WireHeaders, {EmptyHeaders})
  /\ NoClient

SpecCodec == InitCodecs /\ [][NextCodec]_vars

\* Propagation through header maps: the application sets the ambient
\* context, injects a context (or the ambient one) into a header map and
\* extracts from the map it wrote or from one it received.
NextPropagation ==
  \/ \E e \in ExecCtxs, ctx \in CallerContexts :
       /\ wire_pc = "start"
       /\ SetCurrentContext(e, ctx)
  \/ \E e \in ExecCtxs : InjectTraceContext(e)
  \/ ExtractTraceContext

InitPropagation ==
  /\ InitTracer({100}, {EmptyDict})
  /\ InitScopes({DefaultMaxBreadcrumbs})
  /\ InitTransport({DefaultMaxBatchSize}, {DefaultMaxRetries})
  /\ InitCodec({NoWireContext} \cup WireContexts, {EmptyText}, Carriers)
  /\ NoClient

SpecPropagation == InitPropagation /\ [][NextPropagation]_vars

\* The client end to end: the application sets tags, captures exceptions,
\* awaits and flushes; the transport's sends succeed or fail.
NextClient ==
  \/ \E k \in ScopeKeys, v \in TagValues : ClientSetTag(k, v)
  \/ \E a \in CaptureArgs, draw \in Draws :
       CaptureException(a.error, a.tags, draw)
  \/ AppAwait
  \/ AppResume
  \/ \E i \in 1 .. MaxCaptures : i <= Len(events) /\ RunSendError(i)
  \/ ClientFlush
  \/ ClientFlushTracer
  \/ ClientFlushReturn
  \/ \E ok \in BOOLEAN : SendResult(1, ok)
  \/ Wake(1)

InitClientRun ==
  /\ InitTracer({100}, {EmptyDict})
  /\ InitScopes({DefaultMaxBreadcrumbs})
  /\ InitTransport({DefaultMaxBatchSize}, {DefaultMaxRetries})
  /\ NoPropagation
  /\ InitClient(ErrorRates, Hooks)

SpecClient == InitClientRun /\ [][NextClient]_vars

\* The client and its tracer: the application starts and ends spans, then
\* flushes or closes the client; the transport's sends succeed or fail.
NextClientSpans ==
  \/ \E draw \in Draws :
       main_pc = "running" /\ StartSpan("main", "none", "none", None, draw)
  \/ \E h \in Handles : main_pc = "running" /\ OnSpanEnd("main", h)
  \/ ClientFlush
  \/ ClientFlushTracer
  \/ ClientFlushReturn
  \/ ClientClose
  \/ ClientCloseTracer
  \/ ClientCloseReturn
  \/ \E ok \in BOOLEAN : SendResult(1, ok)
  \/ Wake(1)

InitClientSpans ==
  /\ InitTracer({100}, {EmptyDict})
  /\ InitScopes({DefaultMaxBreadcrumbs})
  /\ InitTransport({DefaultMaxBatchSize}, {DefaultMaxRetries})
  /\ NoPropagation
  /\ NoClient

SpecClientSpans == InitClientSpans /\ [][NextClientSpans]_vars

\* Captures under every sample rate and hook: the application captures
\* exceptions and messages, awaits and flushes.
NextCapture ==
  \/ \E error \in Errors, draw \in Draws : CaptureException(error, EmptyTags, draw)
  \/ \E message \in Messages, level \in Levels, draw \in Draws :
       CaptureMessage(message, level, draw)
  \/ AppAwait
  \/ AppResume
  \/ \E i \in 1 .. MaxCaptures : i <= Len(events) /\ RunSendError(i)
  \/ ClientFlush
  \/ ClientFlushTracer
  \/ ClientFlushReturn
  \/ \E ok \in BOOLEAN : SendResult(1, ok)
  \/ Wake(1)

InitCapture ==
  /\ InitTracer({100}, {EmptyDict})
  /\ InitScopes({DefaultMaxBreadcrumbs})
  /\ InitTransport({DefaultMaxBatchSize}, {DefaultMaxRetries})
  /\ NoPropagation
  /\ InitClient(SampleRates, Hooks)

SpecCapture == InitCapture /\ [][NextCapture]_vars

\* Spans that share the caller's attributes dict: the application starts
\* spans with or without its static dict (as the @trace decorator does on
\* every call), sets attributes on the recording ones, ends them and hands
\* the ended ones to on_span_end, once each.
NextRecords ==
  \/ \E e \in ExecCtxs, op \in OpArgs, attrs \in AttrsArgs :
       StartSpan(e, op, attrs, None, 0)
  \/ \E h \in Handles, kv \in AttrArgs :
       is_recording(h) /\ SetAttribute(h, kv[1], kv[2])
  \/ \E h \in Handles : is_recording(h) /\ End(h)
  \/ \E e \in ExecCtxs, h \in Handles :
       /\ ~ is_recording(h)
       /\ h \in active_spans
       /\ OnSpanEnd(e, h)

InitRecords == InitWith({100}, StaticDicts)

SpecRecords == InitRecords /\ [][NextRecords]_vars

\* Functions wrapped by @trace, called one after the other under any
\* sampling rate and any ambient context.
NextTrace ==
  \/ \E e \in ExecCtxs, raised \in BOOLEAN, draw \in Draws : TraceCall(e, raised, draw)
  \/ \E e \in ExecCtxs, ctx \in CallerContexts : SetCurrentContext(e, ctx)

InitTrace == InitWith(SampleRates, StaticDicts)

SpecTrace == InitTrace /\ [][NextTrace]_vars

\* Spans that record and spans that do not, side by side: the application
\* starts spans through the tracer (under any sampling outcome) and through
\* the module-level start_span while no global tracer is installed, ends
\* them, hands ended recording spans to on_span_end, and sets the ambient
\* context.
NextNoop ==
  \/ \E e \in ExecCtxs, draw \in Draws : StartSpan(e, "none", "none", None, draw)
  \/ \E e \in ExecCtxs : GlobalStartSpanNoTracer(e)
  \/ \E h \in Handles : End(h)
  \/ \E e \in ExecCtxs, h \in Handles :
       /\ spans[h].kind = "SpanImpl"
       /\ ~ is_recording(h)
       /\ OnSpanEnd(e, h)
  \/ \E e \in ExecCtxs, ctx \in CallerContexts : SetCurrentContext(e, ctx)

InitNoop == InitWith(SampleRates, {EmptyDict})

SpecNoop == InitNoop /\ [][NextNoop]_vars

\* The three kinds side by side, with retries: two tasks enqueue records of
\* every kind, one of them also calls flush, and each send succeeds, or
\* fails and is tried again after the backoff sleep.
NextKinds ==
  \/ \E t \in TaskIds : SendError(t)
  \/ \E t \in TaskIds : SendSpans(t, 1)
  \/ \E t \in TaskIds : SendLogs(t, 1)
  \/ Flush(2)
  \/ \E t \in TaskIds, ok \in BOOLEAN : SendResult(t, ok)
  \/ \E t \in TaskIds : Wake(t)

InitKinds ==
  /\ InitTracer({100}, {EmptyDict})
  /\ InitScopes({DefaultMaxBreadcrumbs})
  /\ InitTransport(BatchSizes, {2})
  /\ NoPropagation
  /\ NoClient

SpecKinds == InitKinds /\ [][NextKinds]_vars

\* ------------------------------------------------------------------ claims

\* The mutating methods of a span, and the calls that end one.
MutatorOps == {"set_status", "set_attribute", "set_attributes", "add_event"}
EndOps == {"end", "exit"}

\* The latest step was a start_span call that returned a new span.
Started == last_call'.op = "start_span" /\ Len(spans') = Len(spans) + 1

\* C1: a span created as a recording span is recording from its creation
\* until the first end() (also the one __exit__ makes), which stops it at
\* once; after that no call makes it recording again.
C1_RecordingUntilFirstEnd ==
  [][ \A h \in 1 .. Len(spans') :
        spans'[h].kind = "SpanImpl" =>
          /\ (h > Len(spans) => Recording(spans'[h]))
          /\ (h <= Len(spans) /\ Recording(spans[h]) /\ ~ Recording(spans'[h])
                => last_call'.op \in EndOps /\ last_call'.span = h)
          /\ (last_call'.op \in EndOps /\ last_call'.span = h
                => ~ Recording(spans'[h]))
          /\ (h <= Len(spans) /\ ~ Recording(spans[h])
                => ~ Recording(spans'[h]))
    ]_vars

\* C1 witness: a mutating call has just been made on a span that had ended,
\* and the span is still not recording.
C1_Witness ==
  \E h \in Handles :
    /\ spans[h].kind = "SpanImpl"
    /\ spans[h].end_time_ns # None
    /\ ~ is_recording(h)
    /\ last_call.op \in MutatorOps
    /\ last_call.span = h

\* C2: a set_status, set_attribute, set_attributes or add_event call made on
\* a span that has ended leaves the span's status, attributes and events as
\* they were.
C2_MutatorsNoOpAfterEnd ==
  [][ \A h \in Handles :
        ( /\ spans[h].kind = "SpanImpl"
          /\ ~ is_recording(h)
          /\ calls' = calls + 1
          /\ last_call'.op \in MutatorOps
          /\ last_call'.span = h )
        => /\ spans'[h].status = spans[h].status
           /\ Attributes(h)' = Attributes(h)
           /\ spans'[h].events = spans[h].events
    ]_vars

\* C2 witness: set_attribute has just been called on an ended span that holds
\* an attribute, an event and a status set before its end.
C2_Witness ==
  \E h \in Handles :
    /\ spans[h].kind = "SpanImpl"
    /\ ~ is_recording(h)
    /\ last_call = Call("set_attribute", "none", h, None)
    /\ Attributes(h) # EmptyDict
    /\ spans[h].status.code # "unset"

\* C3: an end() call (also the one __exit__ makes) on a span that has already
\* ended changes neither its end time nor its duration, whatever the clock
\* reads at the call.
C3_EndIdempotent ==
  [][ \A h \in Handles :
        ( /\ spans[h].kind = "SpanImpl"
          /\ ~ is_recording(h)
          /\ last_call'.op \in EndOps
          /\ last_call'.span = h )
        => /\ spans'[h].end_time_ns = spans[h].end_time_ns
           /\ duration_ns(h)' = duration_ns(h)
    ]_vars

\* C3 witness: the latest step was an end() call on an ended span, made when
\* the clock read something other than the span's end time (so it was not
\* the first end()).
C3_Witness ==
  \E h \in Handles :
    /\ spans[h].kind = "SpanImpl"
    /\ ~ is_recording(h)
    /\ last_call = Call("end", "none", h, None)
    /\ spans[h].end_time_ns # now

\* The span a start_span call has just returned.
NewSpan == spans'[Len(spans')]

\* The ambient context of the calling execution context exists and is marked
\* sampled (before the step).
AmbientSampled ==
  /\ current_context[last_call'.ctx] # NoContext
  /\ current_context[last_call'.ctx].trace_flags % 2 = TRACE_FLAG_SAMPLED

\* C4: with a sampling rate >= 1 every start_span call returns a recording
\* span, and with a sampling rate <= 0 every call returns a no-op span that
\* is not recording, whatever the ambient context is.
C4_RateBoundsDecide ==
  [][ Started =>
        /\ (sample_rate >= 100 =>
              NewSpan.kind = "SpanImpl" /\ Recording(NewSpan))
        /\ (sample_rate <= 0 =>
              NewSpan.kind = "NoopSpan" /\ ~ Recording(NewSpan))
    ]_vars

\* C4 witness: with a rate <= 0, start_span has just returned a no-op span
\* while the ambient context is a sampled one (a no-op start leaves the
\* ambient context as it was at the call).
C4_Witness ==
  /\ sample_rate <= 0
  /\ last_call.op = "start_span"
  /\ spans[last_call.span].kind = "NoopSpan"
  /\ current_context[last_call.ctx] # NoContext
  /\ current_context[last_call.ctx].trace_flags = TRACE_FLAG_SAMPLED

\* C5: with a sampling rate strictly between 0 and 1, every start_span call
\* made while the ambient context exists and is marked sampled returns a
\* recording span, whatever random.random() returns.
C5_FractionalRateFollowsSampledContext ==
  [][ (Started /\ 0 < sample_rate /\ sample_rate < 100 /\ AmbientSampled)
        => NewSpan.kind = "SpanImpl" /\ Recording(NewSpan)
    ]_vars

\* C5 witness: with rate 0.5, start_span without an explicit parent has just
\* returned a recording span whose parent is the sampled remote span, so the
\* ambient context at the call was the sampled remote context.
C5_Witness ==
  /\ sample_rate = 50
  /\ last_call.op = "start_span"
  /\ last_call.parent = None
  /\ spans[last_call.span].kind = "SpanImpl"
  /\ spans[last_call.span].parent_span_id = RemoteSpanId(TRACE_FLAG_SAMPLED)

\* C6: a no-op span has a non-empty trace_id and span_id, its span context
\* carries the not-sampled flag, it is not recording from the moment it is
\* returned, and every mutating call and every end() on it changes neither
\* the span nor the caller's dict, the registry, the finished queue or the
\* ambient context.
C6_NoopSpanRecordsNothing ==
  [][ \A h \in 1 .. Len(spans') :
        spans'[h].kind = "NoopSpan" =>
          /\ spans'[h].trace_id # None
          /\ spans'[h].span_id # None
          /\ (span_context(h))'.trace_flags = TRACE_FLAG_NONE
          /\ ~ Recording(spans'[h])
          /\ ( ( /\ h <= Len(spans)
                 /\ last_call'.op \in MutatorOps \cup EndOps
                 /\ last_call'.span = h )
               => UNCHANGED << spans, static_attrs, active_spans,
                               finished_spans, current_context >> )
    ]_vars

\* C6 witness: a mutating call has just been made on a no-op span that
\* start_span returned for a rate strictly between 0 and 1.
C6_Witness ==
  \E h \in Handles :
    /\ spans[h].kind = "NoopSpan"
    /\ 0 < sample_rate /\ sample_rate < 100
    /\ last_call.op \in MutatorOps
    /\ last_call.span = h

\* C7: a sampled span returned by start_span has the trace_id and, as
\* parent_span_id, the span_id of its explicit parent if one was given, else
\* of the ambient context if one exists; with neither it has a trace_id no
\* span had before and no parent_span_id.  Its span_id is one no span or
\* context had before, so it differs from its parent's.  Hence any two spans
\* linked by parent_span_id have the same trace_id.
C7_TraceIdentityInherited ==
  [][ (Started /\ NewSpan.kind = "SpanImpl") =>
        LET parent == last_call'.parent
            ambient == current_context[last_call'.ctx]
            old_span_ids ==
              {spans[x].span_id : x \in Handles}
                \cup {RemoteSpanId(f) : f \in RemoteFlags}
                \cup {ambient.span_id}
            old_trace_ids ==
              {spans[x].trace_id : x \in Handles} \cup {RemoteTraceId}
        IN /\ (parent # None =>
                 /\ NewSpan.trace_id = spans[parent].trace_id
                 /\ NewSpan.parent_span_id = spans[parent].span_id)
           /\ (parent = None /\ ambient # NoContext =>
                 /\ NewSpan.trace_id = ambient.trace_id
                 /\ NewSpan.parent_span_id = ambient.span_id)
           /\ (parent = None /\ ambient = NoContext =>
                 /\ NewSpan.trace_id \notin old_trace_ids
                 /\ NewSpan.parent_span_id = None)
           /\ NewSpan.span_id \notin old_span_ids
           /\ NewSpan.span_id # NewSpan.parent_span_id
           /\ \A h, p \in 1 .. Len(spans') :
                ( /\ spans'[h].kind = "SpanImpl"
                  /\ spans'[h].parent_span_id = spans'[p].span_id )
                => spans'[h].trace_id = spans'[p].trace_id
    ]_vars

\* C7 witness: start_span has just returned a sampled span for an explicit
\* parent that was itself started under the remote context: both are in the
\* remote trace and the span's parent_span_id is the parent's span_id.
C7_Witness ==
  /\ last_call.op = "start_span"
  /\ last_call.parent # None
  /\ spans[last_call.span].kind = "SpanImpl"
  /\ spans[last_call.parent].kind = "SpanImpl"
  /\ spans[last_call.parent].parent_span_id \in
       {RemoteSpanId(f) : f \in RemoteFlags}
  /\ spans[last_call.span].parent_span_id = spans[last_call.parent].span_id
  /\ spans[last_call.span].trace_id = RemoteTraceId

\* C8: right after start_span has returned a sampled span, get_active_span()
\* in the calling execution context returns that span; calls of a span's
\* methods (end() among them) do not change what get_active_span() returns;
\* and while no span has been started and no ambient context is set,
\* get_active_span() returns None.
C8_StartedSpanIsActive ==
  [][ /\ \A e \in ExecCtxs :
           (Started /\ last_call'.ctx = e /\ NewSpan.kind = "SpanImpl")
             => (get_active_span(e))' = Len(spans')
      /\ (last_call'.op \in MutatorOps \cup EndOps
            => \A e \in ExecCtxs : (get_active_span(e))' = get_active_span(e))
      /\ \A e \in ExecCtxs :
           (spans' = << >> /\ current_context'[e] = NoContext)
             => (get_active_span(e))' = None
    ]_vars

\* C8 witness: a second sampled span has just been started and is the active
\* one, in place of the first.
C8_Witness ==
  /\ last_call.op = "start_span"
  /\ Len(spans) = 2
  /\ spans[1].kind = "SpanImpl"
  /\ spans[2].kind = "SpanImpl"
  /\ get_active_span(last_call.ctx) = 2

\* C9: on_span_end of a span whose parent is still in the active registry
\* makes that parent the active span of the calling execution context; on_span_end
\* of a span that has no parent in the registry (a root span, as the parent is
\* once its child has ended) leaves no active span there.
C9_EndRestoresParent ==
  [][ ( /\ last_call'.op = "on_span_end"
        /\ Len(finished_spans') = Len(finished_spans) + 1 ) =>
        \A e \in ExecCtxs, c \in Handles :
          (last_call'.ctx = e /\ last_call'.span = c) =>
            LET parents == { p \in active_spans \ {c} :
                               spans[p].span_id = spans[c].parent_span_id }
            IN /\ \A p \in parents : (get_active_span(e))' = p
               /\ (parents = {} => (get_active_span(e))' = None)
    ]_vars

\* C9 witness: a child started under a parent was ended first (its record is
\* the first in the finished queue) while the parent was still registered,
\* then the parent (second record); no span is active now.
C9_Witness ==
  /\ Len(spans) = 2
  /\ spans[2].parent_span_id = spans[1].span_id
  /\ Len(finished_spans) = 2
  /\ finished_spans[1].span_id = spans[2].span_id
  /\ finished_spans[2].span_id = spans[1].span_id
  /\ last_call.op = "on_span_end"
  /\ get_active_span(last_call.ctx) = None

\* The first half of C9's scenario: the child has just been ended and its
\* parent is the active span again.
C9_ParentActiveAgain ==
  /\ Len(spans) = 2
  /\ spans[2].parent_span_id = spans[1].span_id
  /\ last_call = Call("on_span_end", "main", 2, None)
  /\ ~ is_recording(2)
  /\ get_active_span("main") = 1

\* C10: every span held in the active registry is still recording (a span
\* is dropped from the registry when it ends, also when it is ended by end()
\* alone or by leaving a with block).
C10_RegistryHoldsOnlyRecording ==
  \A h \in active_spans : is_recording(h)

\* C11: the finished-span queue holds at most one wire record per span_id,
\* whatever sequence of end() and on_span_end() calls was made (on_span_end
\* may be invoked more than once for the same span).
C11_OneRecordPerSpan ==
  \A i, j \in 1 .. Len(finished_spans) :
    finished_spans[i].span_id = finished_spans[j].span_id => i = j

\* C12: a scope with capacity K (max_breadcrumbs) never holds more than K
\* breadcrumbs after an add_breadcrumb call has returned, and once more than
\* K breadcrumbs have been added to it, it holds exactly the last K added, in
\* the order they were added.
C12_RingBufferKeepsLastK ==
  \A h \in ScopeHandles :
    LET cap == scopes[h].max_breadcrumbs
        list == crumb_lists[scopes[h].breadcrumbs]
    IN /\ (last_call.op = "add_breadcrumb" /\ last_call.span = h) =>
            Len(list) <= cap
       /\ cap >= 0 => Len(list) <= cap
       /\ (cap >= 0 /\ Len(scopes[h].added) > cap) =>
            list = LastK(scopes[h].added, cap)

\* C12 witness: three breadcrumbs were added to a scope of capacity two,
\* which now holds the second and the third.
C12_Witness ==
  \E h \in ScopeHandles :
    /\ scopes[h].max_breadcrumbs = 2
    /\ Len(scopes[h].added) = 3
    /\ last_call = Call("add_breadcrumb", "main", h, None)
    /\ crumb_lists[scopes[h].breadcrumbs] = << scopes[h].added[2], scopes[h].added[3] >>

\* The calls that change what a scope holds.
ScopeMutations ==
  { "set_user", "set_tag", "set_extra", "set_fingerprint", "add_breadcrumb",
    "clear_breadcrumbs", "clear", "mutate_extra_value",
    "mutate_breadcrumb_data" }

\* C13: scopes share no mutable storage: a mutation made through one scope
\* (a setter, or a change of a value stored in its extra or of the data of
\* one of its breadcrumbs) changes nothing of what any other scope, its
\* clone or its source included, shows.
C13_CloneSharesNoStorage ==
  [][ \A h, g \in 1 .. MaxScopes :
        ( /\ h \in ScopeHandles /\ g \in ScopeHandles /\ g # h
          /\ last_call'.op \in ScopeMutations
          /\ last_call'.span = h ) =>
          (ScopeView(g))' = ScopeView(g)
    ]_vars

\* C14: with_scope / with_scope_async make a clone of the scope that was
\* current on entry the current scope (a new scope object with new
\* containers holding the same entries); when the call ends, by return or by
\* exception, the current scope is again the one that was current on entry;
\* and a tag, an extra or a breadcrumb set on one scope shows in no other
\* scope, at any depth of nesting.
C14_WithScopeIsolates ==
  [][ \A e \in ExecCtxs :
        /\ (last_call'.op = "with_scope" /\ last_call'.ctx = e) =>
             \A s \in 1 .. MaxScopes :
               (get_current_scope(e))' = s =>
                 /\ s \notin ScopeHandles
                 /\ s # get_current_scope(e)
                 /\ (ScopeEntries(s))' = ScopeEntries(get_current_scope(e))
                 /\ scopes'[s].tags \notin 1 .. Len(tag_dicts)
                 /\ scopes'[s].extra \notin 1 .. Len(extra_dicts)
                 /\ scopes'[s].breadcrumbs \notin 1 .. Len(crumb_lists)
        /\ ( /\ last_call'.op \in {"with_scope returned", "with_scope raised"}
             /\ last_call'.ctx = e ) =>
             (get_current_scope(e))' =
               scope_frames[e][Len(scope_frames[e])].entry
        /\ \A h, g \in 1 .. MaxScopes :
             ( /\ h \in ScopeHandles /\ g \in ScopeHandles /\ g # h
               /\ last_call'.op \in {"set_tag", "set_extra", "add_breadcrumb"}
               /\ last_call'.span = h ) =>
               (ScopeView(g))' = ScopeView(g)
    ]_vars

\* C14 witness: two with_scope calls were nested, a tag was set on the
\* innermost scope, and the inner call has ended with an exception: the
\* current scope is the scope of the outer call, which does not show the tag.
C14_Witness ==
  /\ Len(scopes) = 3
  /\ Len(scope_frames["main"]) = 1
  /\ last_call = Call("with_scope raised", "main", 3, 2)
  /\ get_current_scope("main") = 2
  /\ Tags(3)["k"] = "a"
  /\ Tags(2)["k"] = Absent
  /\ Tags(GlobalScope)["k"] = Absent

\* The batches handed to _send_with_retry by the latest step.
NewBatches == SubSeq(batches', Len(batches) + 1, Len(batches'))
\* The batches of kind k in the sequence bs, in order.
OfKind(bs, k) == SelectSeq(bs, LAMBDA b : b.kind = k)

\* C15: of the send_error calls that fill an empty error queue, only the one
\* that brings the max_batch_size-th error flushes, and it hands over one
\* batch holding exactly those max_batch_size errors and leaves the queue
\* empty; a flush() that finds the error queue empty hands over no errors.
C15_FullQueueFlushesOnce ==
  [][ /\ last_call'.op = "send_error" =>
           LET q == Append(queues["errors"], records + 1) IN
           IF Len(q) = max_batch_size
           THEN /\ Len(NewBatches) = 1
                /\ NewBatches[1].kind = "errors"
                /\ NewBatches[1].auto
                /\ NewBatches[1].items = q
                /\ queues'["errors"] = << >>
           ELSE Len(q) < max_batch_size => NewBatches = << >>
      /\ (last_call'.op = "flush" /\ queues["errors"] = << >>) =>
           OfKind(NewBatches, "errors") = << >>
    ]_vars

\* C15 witness: with max_batch_size 2, two send_error calls have produced one
\* automatic batch of the two errors, and the latest step is a flush() that
\* found all queues empty and handed over nothing.
C15_Witness ==
  /\ max_batch_size = 2
  /\ max_retries = 1
  /\ Len(batches) = 1
  /\ batches[1].kind = "errors" /\ batches[1].auto
  /\ batches[1].items = << 1, 2 >>
  /\ batches[1].state = "sent"
  /\ enqueued["errors"] = << 1, 2 >>
  /\ queues = [k \in Kinds |-> << >>]
  /\ last_call = Call("flush", "main", 2, None)

\* The concatenation of the records of the batches bs, in order.
RECURSIVE Concat(_)
Concat(bs) == IF bs = << >> THEN << >> ELSE bs[1].items \o Concat(Tail(bs))
\* The smaller of two numbers.
Min(a, b) == IF a < b THEN a ELSE b

\* C16: a flush of one queue takes the min(length, max_batch_size) oldest
\* records as one batch, in enqueue order, and leaves the others queued in
\* their order; so for each kind the batches, concatenated in the order they
\* were drained and followed by what is still queued, give the records in
\* the order they were enqueued.
C16_FlushDrainsOldestFirst ==
  [][ \A k \in Kinds :
        LET arrived == SubSeq(enqueued'[k], Len(enqueued[k]) + 1, Len(enqueued'[k]))
            pre == queues[k] \o arrived
            nb == OfKind(NewBatches, k)
            n == Min(Len(pre), max_batch_size)
        IN /\ Len(nb) <= 1
           /\ nb = << >> => queues'[k] = pre
           /\ nb # << >> =>
                /\ n >= 1
                /\ nb[1].items = SubSeq(pre, 1, n)
                /\ queues'[k] = SubSeq(pre, n + 1, Len(pre))
           /\ Concat(OfKind(batches', k)) \o queues'[k] = enqueued'[k]
    ]_vars

\* C16 witness: with max_batch_size 2, three spans were enqueued by two
\* calls; the automatic flush took the two oldest and left the third queued,
\* and a later flush() took the third as a batch of one.
C16_Witness ==
  /\ max_batch_size = 2
  /\ enqueued["spans"] = << 1, 2, 3 >>
  /\ Len(batches) = 2
  /\ batches[1].kind = "spans" /\ batches[1].auto
  /\ batches[1].items = << 1, 2 >>
  /\ batches[2].kind = "spans" /\ ~ batches[2].auto
  /\ batches[2].items = << 3 >>
  /\ queues["spans"] = << >>

\* The place of a kind in the order errors, spans, logs.
KindRank(k) == IF k = "errors" THEN 1 ELSE IF k = "spans" THEN 2 ELSE 3

\* The batches (by index in bs) drained by the flush() call that task t is
\* in, or starts, where first is the index of the first batch of that call.
FlushBatches(bs, t, first) ==
  { i \in first .. Len(bs) : bs[i].task = t /\ ~ bs[i].auto }

\* C17: one flush() call drains the kinds in the order errors, spans, logs,
\* and when it drains a kind, the send (with all its retries) of every batch
\* it drained before is over.
C17_FlushOrder ==
  [][ \A t \in TaskIds :
        LET first == IF tasks[t].op = "flush" THEN tasks[t].first_batch
                     ELSE Len(batches) + 1
            mine == FlushBatches(batches', t, first)
            new == { i \in mine : i > Len(batches) }
        IN ( \/ tasks[t].op = "flush"
             \/ (last_call'.op = "flush" /\ last_call'.span = t) ) =>
           \A i \in mine, j \in new :
             i < j =>
               /\ KindRank(batches'[i].kind) < KindRank(batches'[j].kind)
               /\ batches'[i].state # "in flight"
    ]_vars

\* C17 witness: one flush() call has drained an error, a span and a log, in
\* that order; the sends of the first two ended (one failed for good, one
\* succeeded) before the log was drained.
C17_Witness ==
  /\ Len(batches) = 3
  /\ \A i \in 1 .. 3 : batches[i].task = 2 /\ ~ batches[i].auto
  /\ batches[1].kind = "errors" /\ batches[1].state = "dropped"
  /\ batches[2].kind = "spans" /\ batches[2].state = "sent"
  /\ batches[3].kind = "logs" /\ batches[3].state = "in flight"
  /\ tasks[2].op = "flush" /\ tasks[2].pc = "send"

\* C18: a batch whose every send attempt failed was passed to the underlying
\* send exactly max_retries times; between consecutive attempts the task
\* waited min(1 * 2^attempt, 10) seconds (attempt counted from 0), so the
\* delays never decrease and never exceed the cap; there is no wait after
\* the last attempt; and the flush then goes on (nothing is raised).
C18_RetryBackoff ==
  /\ \A i \in 1 .. Len(batches) :
       LET b == batches[i] IN
       /\ b.state = "dropped" =>
            /\ b.sends = max_retries
            /\ b.failures = max_retries
            /\ Len(b.delays) = IF max_retries = 0 THEN 0 ELSE max_retries - 1
            /\ \A t \in TaskIds : tasks[t].batch # i
       /\ b.sends <= max_retries
       /\ Len(b.delays) <= b.failures
       /\ \A d \in 1 .. Len(b.delays) :
            /\ b.delays[d] = Min(1 * (2 ^ (d - 1)), 10)
            /\ b.delays[d] <= 10
            /\ d > 1 => b.delays[d - 1] <= b.delays[d]
  /\ last_call.op = "send_with_retry gave up" =>
       tasks[last_call.span].pc \in {"idle", "send"}

\* C18 witness: with max_retries 6, all six attempts for a batch failed; the
\* task waited 1, 2, 4, 8 and 10 seconds between them and has returned.
C18_Witness ==
  /\ max_retries = 6
  /\ Len(batches) = 1
  /\ batches[1].state = "dropped"
  /\ batches[1].sends = 6
  /\ batches[1].delays = << 1, 2, 4, 8, 10 >>
  /\ last_call = Call("send_with_retry gave up", "main", 1, None)
  /\ tasks[1].pc = "idle"

\* The records of sequence s, as a set.
Range(s) == { s[i] : i \in 1 .. Len(s) }

\* C19: the records of a batch whose retries are exhausted are in no queue
\* and in no other batch, no task is sending that batch any more, and the
\* call that was sending it has gone on or returned (nothing is raised into
\* send_error, send_spans, send_logs or flush).
C19_FailedBatchIsDropped ==
  /\ \A i \in 1 .. Len(batches) :
       batches[i].state = "dropped" =>
         /\ \A k \in Kinds : Range(queues[k]) \cap Range(batches[i].items) = {}
         /\ \A j \in 1 .. Len(batches) :
              j # i => Range(batches[j].items) \cap Range(batches[i].items) = {}
         /\ \A t \in TaskIds : tasks[t].batch # i
         /\ batches[i].sends = max_retries
  /\ last_call.op = "send_with_retry gave up" =>
       tasks[last_call.span].pc \in {"idle", "send"}

\* C19 witness: with max_retries 1 the only attempt for a batch of errors
\* failed; the batch is dropped, the send_error call has returned, and an
\* error enqueued later was handed over in a batch of its own.
C19_Witness ==
  /\ max_retries = 1
  /\ max_batch_size = 1
  /\ Len(batches) = 2
  /\ batches[1].kind = "errors" /\ batches[1].state = "dropped"
  /\ batches[1].items = << 1 >> /\ batches[1].sends = 1
  /\ batches[2].kind = "errors" /\ batches[2].items = << 2 >>
  /\ batches[2].state = "sent"
  /\ queues["errors"] = << >>
  /\ tasks = [t \in TaskIds |-> IdleTask]

\* How many times record r occurs in sequence s.
Occurrences(s, r) == Cardinality({ i \in 1 .. Len(s) : s[i] = r })

\* C20: whatever flushes and enqueues overlap, every record enqueued is
\* either still in the queue of its kind, once, or in exactly one batch
\* handed to _send_with_retry: none is in two batches, none has left its
\* queue without being in a batch.
C20_EachRecordInOneBatch ==
  \A k \in Kinds :
    \A r \in 1 .. records :
      LET queued == Occurrences(queues[k], r)
          batched == Occurrences(Concat(OfKind(batches, k)), r)
      IN IF r \in Range(enqueued[k])
         THEN queued + batched = 1
         ELSE queued + batched = 0

\* C20 witness: an automatic flush of spans (task 1) and an explicit flush()
\* (task 2) are both suspended in their sends, each holding a different one
\* of the two spans that one send_spans call enqueued.
C20_Witness ==
  /\ max_batch_size = 1
  /\ enqueued["spans"] = << 1, 2 >>
  /\ tasks[1].op = "send_spans" /\ tasks[1].pc = "send"
  /\ tasks[2].op = "flush" /\ tasks[2].pc = "send"
  /\ batches[tasks[1].batch].items = << 1 >>
  /\ batches[tasks[2].batch].items = << 2 >>
  /\ queues["spans"] = << >>

\* The answers send_payload turns into an exception, and the steps in which
\* the POST of task 1 is answered.
FailedResponse(resp) == resp.timed_out \/ resp.status >= 400
Answered ==
  /\ tasks[1].pc = "send"
  /\ last_call'.op \in
       {"send_payload returned", "send_payload raised", "send_with_retry gave up"}

\* C21: a send attempt answered with a status >= 400, or cut short by the
\* client's timeout, is a failed attempt of _send_with_retry: it is counted,
\* the batch is not delivered, and the loop sleeps the backoff delay before
\* the next attempt or, after the last attempt, gives the batch up; an answer
\* with a status below 400 ends the loop with the batch delivered and nothing
\* counted.
C21_HttpFailureIsRetried ==
  [][ Answered =>
        LET b == tasks[1].batch
            resp == last_response'
        IN IF FailedResponse(resp)
           THEN /\ batches'[b].failures = batches[b].failures + 1
                /\ batches'[b].state # "sent"
                /\ IF tasks[1].attempt < max_retries - 1
                   THEN /\ tasks'[1].pc = "sleep"
                        /\ tasks'[1].batch = b
                        /\ batches'[b].state = "in flight"
                        /\ Len(batches'[b].delays) = Len(batches[b].delays) + 1
                   ELSE /\ batches'[b].state = "dropped"
                        /\ tasks'[1].pc # "sleep"
           ELSE /\ batches'[b].state = "sent"
                /\ batches'[b].failures = batches[b].failures
                /\ batches'[b].sends = batches[b].sends
                /\ tasks'[1].pc # "sleep"
                /\ tasks'[1].batch # b
    ]_vars

\* A first batch was delivered after a 404 and a retry, and the POST of the
\* second batch has just timed out, so the task sleeps before retrying it.
C21_Witness ==
  /\ Len(batches) = 2
  /\ batches[1].state = "sent" /\ batches[1].failures = 1
  /\ last_response.timed_out
  /\ tasks[1].pc = "sleep" /\ tasks[1].batch = 2

\* Exactly n hex digits; a valid trace context as the codec's contract has it.
ExactHex(s, n) == Len(s) = n /\ \A i \in 1 .. Len(s) : s[i] \in HexDigits
LowerHex(s, n) == ExactHex(s, n) /\ Lower(s) = s
ValidContext(ctx) ==
  /\ LowerHex(ctx.trace_id, TraceIdLen) /\ ctx.trace_id # Rep("0", TraceIdLen)
  /\ LowerHex(ctx.span_id, SpanIdLen) /\ ctx.span_id # Rep("0", SpanIdLen)
  /\ ctx.trace_flags \in 0 .. 255

\* C22 as stated: for every valid trace context, with or without vendor
\* state, parse_traceparent(create_traceparent(ctx)) equals ctx.
C22_RoundTripIsIdentity ==
  wire_pc = "decoded" /\ ValidContext(wire_ctx) => wire_result = wire_ctx

\* C22 as amended: for every valid trace context,
\* parse_traceparent(create_traceparent(ctx)) has the trace id, the span id
\* and the flags of ctx and no vendor state; it equals ctx when ctx has none.
C22_RoundTripKeepsIdsAndFlags ==
  wire_pc = "decoded" /\ ValidContext(wire_ctx) =>
    /\ wire_result = [wire_ctx EXCEPT !.trace_state = PyNone]
    /\ (wire_ctx.trace_state = PyNone => wire_result = wire_ctx)

\* A valid context with all flag bits set and a vendor state went through
\* create_traceparent and parse_traceparent.
C22_Witness ==
  /\ wire_pc = "decoded"
  /\ ValidContext(wire_ctx)
  /\ wire_ctx.trace_flags = 255
  /\ wire_ctx.trace_state = VendorState
  /\ wire_result.trace_id = GoodTraceId

\* A header the contract of parse_traceparent rejects: its segments, cut at
\* the "-", are not four, the version is not "00", the trace id or the span
\* id is not exactly 32 / 16 hex digits or is all zero, or the flags are not
\* hex digits.  Whitespace around the header is not held against it.
Malformed(header) ==
  LET parts == Split(Strip(header), "-") IN
    \/ Len(parts) # 4
    \/ /\ Len(parts) = 4
       /\ \/ parts[1] # << "0", "0" >>
          \/ ~ ExactHex(parts[2], TraceIdLen)
          \/ parts[2] = Rep("0", TraceIdLen)
          \/ ~ ExactHex(parts[3], SpanIdLen)
          \/ parts[3] = Rep("0", SpanIdLen)
          \/ parts[4] = << >>
          \/ \E i \in 1 .. Len(parts[4]) : parts[4][i] \notin HexDigits

\* C23: parse_traceparent returns None for every malformed header.
C23_MalformedIsAbsent ==
  wire_pc = "parsed" /\ Malformed(wire_header) => wire_result = NoWireContext

\* The context an inject_trace_context call is about: the one given or,
\* when none is given, the ambient one of execution context e.
InjectedContext(e) ==
  IF wire_ctx # NoWireContext THEN wire_ctx ELSE WireOf(current_context[e])

\* C24: inject_trace_context writes the traceparent header of the given
\* context, or of the ambient context when none is given; it writes the
\* tracestate header when that context has vendor state and leaves it as it
\* was otherwise; it leaves every other header as it was, and the whole map
\* when there is neither a given nor an ambient context.
C24_InjectWritesPropagationHeaders ==
  [][ wire_pc = "start" /\ wire_pc' = "injected" =>
        \A e \in ExecCtxs : last_call'.ctx = e =>
          LET ctx == InjectedContext(e) IN
            IF ctx = NoWireContext THEN carrier' = carrier
            ELSE /\ carrier'[TRACEPARENT_HEADER] =
                      Traceparent(<< "0", "0" >>, ctx.trace_id, ctx.span_id,
                                  format_02x(ctx.trace_flags))
                 /\ carrier'[TRACESTATE_HEADER] =
                      IF Truthy(ctx.trace_state) THEN ctx.trace_state
                      ELSE carrier[TRACESTATE_HEADER]
                 /\ \A n \in HeaderNames \ {TRACEPARENT_HEADER, TRACESTATE_HEADER} :
                      carrier'[n] = carrier[n]
    ]_vars

\* No context was given, and the ambient context of a remote sampled span
\* was written into a map that held another header; no tracestate header
\* was added.
C24_Witness ==
  /\ wire_pc = "injected"
  /\ wire_ctx = NoWireContext
  /\ current_context["main"] =
       SpanContext(RemoteTraceId, RemoteSpanId(TRACE_FLAG_SAMPLED), TRACE_FLAG_SAMPLED)
  /\ carrier[TRACEPARENT_HEADER] =
       Traceparent(<< "0", "0" >>, IdText(RemoteTraceId, TraceIdLen),
                   IdText(RemoteSpanId(TRACE_FLAG_SAMPLED), SpanIdLen), << "0", "1" >>)
  /\ carrier[TRACESTATE_HEADER] = PyNone
  /\ carrier["x-request-id"] = << "r" >>

\* The capitalisations of the propagation header's name the header maps of
\* the model hold.
TraceparentNames == {TRACEPARENT_HEADER, "Traceparent", "TRACEPARENT"}

\* C25: extract_trace_context finds the traceparent header under any
\* capitalisation of its name: when the map holds a valid value under some
\* capitalisation (and no value that fails decode), it returns the decoded
\* context; it returns None only when no such header exists or a value
\* fails decode.
C25_ExtractIgnoresCase ==
  wire_pc = "extracted" =>
    LET held == {n \in TraceparentNames : carrier[n] # PyNone} IN
      /\ held # {} /\ (\A n \in held : parse_traceparent(carrier[n]) # NoWireContext)
           => \E n \in held :
                /\ wire_result.trace_id = parse_traceparent(carrier[n]).trace_id
                /\ wire_result.span_id = parse_traceparent(carrier[n]).span_id
                /\ wire_result.trace_flags = parse_traceparent(carrier[n]).trace_flags
      /\ held = {} => wire_result = NoWireContext

\* The vendor state of a valid context: none, or a text that is not empty.
ValidState(st) == st = PyNone \/ st # EmptyText

\* C26: a valid context injected into an empty header map and extracted
\* from that map comes back with the same trace_id, span_id, trace_flags and
\* trace_state.
C26_InjectExtractRoundTrip ==
  /\ wire_pc = "carried"
  /\ wire_ctx # NoWireContext
  /\ ValidContext(wire_ctx) /\ ValidState(wire_ctx.trace_state)
  /\ carrier = inject_trace_context(EmptyHeaders, wire_ctx, NoWireContext)
  => wire_result = wire_ctx

\* A valid context with a vendor state was injected into an empty map and
\* extracted from it.
C26_Witness ==
  /\ wire_pc = "carried"
  /\ wire_ctx = WireContext(GoodTraceId, GoodSpanId, 255, VendorState)
  /\ carrier = [EmptyHeaders EXCEPT ![TRACEPARENT_HEADER] = create_traceparent(wire_ctx),
                                    ![TRACESTATE_HEADER] = VendorState]
  /\ wire_result.trace_state = VendorState

\* The error records handed to _send_with_retry so far, in order.
ErrorsHandedToSend == Concat(OfKind(batches, "errors"))
\* The dict the transport holds as record r.
PayloadOf(r) ==
  events[CHOOSE i \in 1 .. Len(events) : events[i].record = r].payload
\* client.flush() has just returned in a client with the default options
\* whose application has captured one exception, without a tags argument.
FlushedAfterOneCapture ==
  /\ last_call.op = "client.flush returned"
  /\ errors_sample_rate = 100
  /\ before_send = "none"
  /\ Len(captures) = 1
  /\ captures[1].tags = EmptyTags

\* C27: end to end, when client.flush() returns after the client was
\* created, tags were set and one exception was captured, exactly one error
\* record has been handed to send, and its type, its message and its context
\* tags are the exception's type, the exception's message and the tags set
\* before the capture.
C27_CapturedErrorIsSentByFlush ==
  FlushedAfterOneCapture =>
    /\ Len(ErrorsHandedToSend) = 1
    /\ PayloadOf(ErrorsHandedToSend[1]).type = captures[1].type
    /\ PayloadOf(ErrorsHandedToSend[1]).message = captures[1].message
    /\ PayloadOf(ErrorsHandedToSend[1]).context.tags = captures[1].scope_tags

\* The calls of the tracer and of a span that ended in an exception.
RaisedTracerCalls == {"on_span_end raised"}

\* C28: start_span, on_span_end, get_active_span and the operations of a
\* span never raise, in whatever order they are called.
C28_TracerCallsNeverRaise == last_call.op \notin RaisedTracerCalls

\* C29: a start_span or on_span_end call made in one execution context
\* leaves what get_active_span() returns in every other execution context
\* as it was.
C29_ActiveSpanIsPerContext ==
  [][ \A c \in ForkCtxs :
        last_call'.op \in {"start_span", "on_span_end", "on_span_end raised"}
        /\ last_call'.ctx # c
          => get_active_span(c)' = get_active_span(c)
    ]_vars

\* C30: when a flush() call returns, every queue is empty (no other task
\* enqueues meanwhile: task 1 is the only one).
C30_FlushEmptiesQueues ==
  [][ (last_call'.op = "flush" \/ tasks[1].op = "flush")
        /\ tasks'[1].pc = "idle"
        => \A k \in Kinds : queues'[k] = << >>
    ]_vars

\* C31: when client.flush() or client.close() returns, every span whose
\* on_span_end ran before the call has been handed to the transport's send:
\* the tracer's finished-span queue and the transport's span queue are empty.
C31_FlushHandsEverySpanToSend ==
  last_call.op \in {"client.flush returned", "client.close returned"} =>
    /\ finished_spans = << >>
    /\ queues["spans"] = << >>

\* C32: the duration of a span is zero while it is recording, and once it
\* has ended its end time is not earlier than its start time, so that its
\* duration is never negative.
C32_DurationNeverNegative ==
  \A h \in Handles :
    spans[h].kind = "SpanImpl" =>
      /\ is_recording(h) => duration_ns(h) = 0
      /\ ~ is_recording(h) =>
           /\ spans[h].end_time_ns >= spans[h].start_time_ns
           /\ duration_ns(h) >= 0

\* The captures that return an event id, and those that return "".
CaptureOps == {"capture_exception", "capture_message"}

\* C33: while errors_sample_rate <= 0, or while the before_send hook returns
\* nothing, every capture_exception and capture_message returns the empty
\* event id, no event is handed to a send task, and nothing ever enters the
\* transport's error queue or is handed to send by a flush.
C33_DroppedEventIsNeverSent ==
  errors_sample_rate <= 0 \/ before_send = "drop" =>
    /\ last_call.op \in CaptureOps => last_call.span = None
    /\ events = << >>
    /\ enqueued["errors"] = << >>
    /\ queues["errors"] = << >>
    /\ OfKind(batches, "errors") = << >>

\* An exception and a message have been captured under a hook that drops
\* them, and a flush has returned.
C33_Witness ==
  /\ errors_sample_rate = 100
  /\ before_send = "drop"
  /\ Len(captures) = 2
  /\ captures[1].type = "RuntimeError"
  /\ captures[2].type = "Message"
  /\ last_call.op = "client.flush returned"

\* C34: with a sampling rate strictly between 0 and 1, every start_span call
\* given an explicit parent span whose context is marked sampled returns a
\* recording span, whatever random.random() returns and whether or not an
\* ambient context exists.
C34_SampledExplicitParentIsFollowed ==
  [][ \A p \in 1 .. MaxSpans :
        (/\ Started
         /\ 0 < sample_rate
         /\ sample_rate < 100
         /\ last_call'.parent = p
         /\ p \in Handles
         /\ span_context(p).trace_flags % 2 = TRACE_FLAG_SAMPLED)
        => NewSpan.kind = "SpanImpl" /\ Recording(NewSpan)
    ]_vars

\* What a reader of the i-th record of the finished-span queue sees: the
\* record and the contents of the dict held as its "attributes".
RecordContents(i) ==
  [ record |-> finished_spans[i],
    attributes |-> Attributes(finished_spans[i].attributes_of) ]

\* C35: once the wire record of a span is in the finished-span queue, no
\* later operation on that span or on any other span changes what the
\* record holds.
C35_FinishedRecordIsFrozen ==
  [][ \A i \in 1 .. MaxFinished :
        i <= Len(finished_spans) => RecordContents(i)' = RecordContents(i)
    ]_vars

C37_EndSetsContextFromParentOnly ==
  [][ last_call'.op \in {"on_span_end", "on_span_end raised"} =>
        \A e \in ExecCtxs, c \in 1 .. MaxSpans :
          (c \in Handles /\ last_call'.ctx = e /\ last_call'.span = c) =>
            LET parents == { p \in active_spans' :
                               spans[p].span_id = spans[c].parent_span_id }
            IN /\ \A p \in parents :
                    current_context'[e] =
                      SpanContext(spans[p].trace_id, spans[p].span_id,
                                  TRACE_FLAG_SAMPLED)
               /\ (parents = {} => current_context'[e] = NoContext)
    ]_vars

\* C37 witness: a parent was handed to on_span_end while its child was the
\* current span; the child is still registered and still recording, yet the
\* ambient context is now absent.
C37_Witness ==
  /\ Len(spans) = 2
  /\ spans[2].parent_span_id = spans[1].span_id
  /\ last_call = Call("on_span_end", "main", 1, None)
  /\ 2 \in active_spans
  /\ is_recording(2)
  /\ get_current_context("main") = NoContext

\* The other case of C37: a root span started under a remote context (its
\* parent_span_id names no span of this process) has been handed to
\* on_span_end, and the remote context is not the ambient context any more.
C37_RemoteContextGone ==
  /\ Len(spans) = 1
  /\ spans[1].kind = "SpanImpl"
  /\ spans[1].parent_span_id # None
  /\ last_call = Call("on_span_end", "main", 1, None)
  /\ get_current_context("main") = NoContext

\* C38: a start_span call that returns a no-op span (the tracer decided not
\* to sample, or no global tracer is installed) leaves the active registry,
\* the ambient context and the finished-span queue as they were, and so does
\* end() called on a no-op span.
C38_NoopSpanLeavesTracerAlone ==
  [][ ( \/ last_call'.op = "start_span" /\ NewSpan.kind = "NoopSpan"
        \/ /\ last_call'.op = "end"
           /\ \E h \in 1 .. MaxSpans :
                h \in Handles /\ last_call'.span = h /\ spans[h].kind = "NoopSpan" ) =>
        /\ active_spans' = active_spans
        /\ current_context' = current_context
        /\ finished_spans' = finished_spans
    ]_vars

\* C38 witness: while a recording span is registered and current, a no-op
\* span was started and then ended; the recording span is still the current
\* one.
C38_Witness ==
  /\ Len(spans) = 2
  /\ spans[1].kind = "SpanImpl"
  /\ spans[2].kind = "NoopSpan"
  /\ last_call.op = "end"
  /\ last_call.span = 2
  /\ 1 \in active_spans
  /\ get_active_span("main") = 1

\* The send_* method that enqueues records of kind k.
SendOpOf(k) ==
  IF k = "errors" THEN "send_error"
  ELSE IF k = "spans" THEN "send_spans" ELSE "send_logs"

\* Every batch handed to send_payload holds only records that were enqueued
\* under the batch's kind.
SentUnderOwnKind ==
  \A i \in 1 .. Len(batches) :
    \A j \in 1 .. Len(batches[i].items) :
      \E n \in 1 .. Len(enqueued[batches[i].kind]) :
        enqueued[batches[i].kind][n] = batches[i].items[j]

\* C39: a send_* call of one kind, the auto-flush it starts and every step
\* of that auto-flush (a send that returns, a send that fails, the next
\* attempt after the sleep, giving up) leave the queues of the other two
\* kinds as they were, as does a failed attempt or a new attempt within
\* flush(); and every batch holds only records enqueued under its own kind.
C39_QueuesAreIndependent ==
  [][ /\ SentUnderOwnKind'
      /\ \A t \in TaskIds, k \in Kinds :
           ( /\ last_call'.span = t
             /\ \/ last_call'.op = SendOpOf(k)
                \/ /\ last_call'.op \in {"send_payload returned",
                                         "send_with_retry gave up"}
                   /\ tasks[t].op = SendOpOf(k)
                \/ /\ last_call'.op \in {"send_payload raised",
                                         "send_payload called"}
                   /\ tasks[t].kind = k ) =>
             \A k2 \in Kinds \ {k} : queues'[k2] = queues[k2]
    ]_vars

\* C39 witness: an error batch was auto-flushed, failed once and was sent by
\* the second attempt while a span record waited in its queue; it is still
\* there.
C39_Witness ==
  /\ Len(batches) = 1
  /\ batches[1].kind = "errors"
  /\ batches[1].auto
  /\ batches[1].failures = 1
  /\ batches[1].state = "sent"
  /\ Len(queues["spans"]) = 1

\* C40: a send that returns ends _send_with_retry for its batch: the batch
\* is then marked sent, no task goes on working on it and its history never
\* changes again; the number of send calls made for a sent batch is one more
\* than the number of attempts that failed before, and at most max_retries.
C40_NoAttemptAfterSuccess ==
  [][ /\ \A i \in 1 .. MaxRecords :
           (i <= Len(batches) /\ batches[i].state = "sent") =>
             batches'[i] = batches[i]
      /\ \A i \in 1 .. MaxRecords :
           (i <= Len(batches') /\ batches'[i].state = "sent") =>
             /\ batches'[i].sends = batches'[i].failures + 1
             /\ batches'[i].sends <= max_retries
             /\ \A t \in TaskIds :
                  tasks'[t].pc \in {"send", "sleep"} => tasks'[t].batch # i
      /\ \A t \in TaskIds :
           (last_call'.op = "send_payload returned" /\ last_call'.span = t) =>
             /\ batches[tasks[t].batch].state = "in flight"
             /\ batches'[tasks[t].batch].state = "sent"
    ]_vars

\* C40 witness: with max_retries 6, the first attempt for a batch failed and
\* the second succeeded; four attempts were never made and the task is idle.
C40_Witness ==
  /\ max_retries = 6
  /\ Len(batches) = 1
  /\ batches[1].state = "sent"
  /\ batches[1].sends = 2
  /\ batches[1].failures = 1
  /\ batches[1].delays = << 1 >>
  /\ last_call = Call("send_payload returned", "main", 1, None)
  /\ tasks[1].pc = "idle"

====
